---- MODULE Spec2Model ----
(***************************************************************************)
(* Model of the branch-memory context store (ContextStorage): a per-branch *)
(* JSON document store over a directory, with temp-file + rename writes,   *)
(* timestamped backups, pruning and backup-based recovery.                 *)
(*                                                                         *)
(* File names and file contents are sequences of tokens (strings); each    *)
(* file-system call of the code is one atomic step of the calling          *)
(* operation, except copyFile and writeFile, which create their            *)
(* destination torn and complete it in a second step.                      *)
(***************************************************************************)
EXTENDS Integers, Sequences, FiniteSets, TLC

\* ------------------------------------------------------------------ bounds
NumProcs   == 2     \* concurrent callers of the store
MaxClock   == 1     \* milliseconds that pass under Spec
MaxSeqClock == 2    \* milliseconds that pass under SeqSpec
MaxRotClock == 5    \* milliseconds that pass under RotSpec
MaxRotSaves == 7    \* saves started under RotSpec (a single caller, saves only)
MaxOps     == 3     \* operations started under Spec
MaxPruneClock == 2  \* milliseconds that pass under PruneSpec
MaxSeqSaves == 4    \* saves started under SeqSpec (a single caller)
MaxFaults  == 1     \* injected I/O failures and crashes
MaxKeyOps   == 3     \* operations started under KeySpec
MaxKeyClock == 1     \* clock ticks under KeySpec
MaxSanLen   == 2     \* length of the short branch names under SanSpec
MaxSanSaves == 2     \* saves under SanSpec
MaxDocSaves == 2     \* saves under DocSpec
MaxReadSaves == 1    \* saves under ReadSpec
MaxReadClock == 1    \* milliseconds that pass under ReadSpec
MaxDocClock == 1     \* clock ticks under DocSpec
MaxSession  == 2     \* messages and todos a session holds under DocSpec
maxMessages == 1     \* config.context.maxMessages under DocSpec
maxTodos    == 1     \* config.context.maxTodos under DocSpec
MaxCount    == 1     \* largest count a hand-built document claims under DocSpec
MaxCorrupt == 1     \* external corruptions of a canonical file (SeqSpec)
MaxMonitorCalls == 5 \* calls and events under MonitorSpec
MaxHooks    == 2     \* hooks and checks under PluginSpec
MaxCheckouts == 1    \* checkouts under PluginSpec
MaxPluginClock == 2  \* clock ticks under PluginSpec
ThrottleMs  == 1     \* config.autoSave.throttleMs under PluginSpec
PeriodicMs  == 2     \* config.autoSave.periodicIntervalMs under PluginSpec
MaxToolSaves == 3    \* requests to the save tool under ToolSpec
MaxToolCheckouts == 1 \* checkouts under ToolSpec
MaxToolClock == 1    \* clock ticks under ToolSpec
MaxConfigCalls == 3  \* calls and assignments under MergeSpec and ConfigSpec
MaxHeld     == 2     \* returned configuration objects the callers keep
MaxLimit    == 2     \* configured context.maxMessages and context.maxTodos under LimitSpec
MaxCollects == 2     \* collectContext calls under LimitSpec

\* ------------------------------------------------------- program constants
KeepBackups == 5    \* cleanOldBackups: .slice(5)
MaxNameLen  == 255  \* sanitizeBranchName: .substring(0, 255)

\* the saves of the earlier session whose directory a store may start with
PriorSaves == KeepBackups + 1

\* Date.now() when the store is constructed
Epoch == PriorSaves

Procs == 1..NumProcs

\* ----------------------------------------------------------- token strings
Min(a, b) == IF a < b THEN a ELSE b

\* the numbers that appear in names and documents
Numbers == 0..(PriorSaves + MaxClock + MaxSeqClock + MaxRotClock + MaxOps + MaxSeqSaves + MaxRotSaves)

\* `${n}`: the decimal numeral of n
NumToStr(n) == ToString(n)

\* /\d+/: the token is a decimal numeral
IsDigits(s) == \E n \in Numbers : NumToStr(n) = s

\* parseInt(s, 10) of a numeral
parseInt(s) == CHOOSE n \in Numbers : NumToStr(n) = s

startsWith(f, pre) ==
    /\ Len(f) >= Len(pre)
    /\ SubSeq(f, 1, Len(pre)) = pre

endsWith(f, suf) ==
    /\ Len(f) >= Len(suf)
    /\ SubSeq(f, Len(f) - Len(suf) + 1, Len(f)) = suf

\* str.includes(sub)
includes(f, sub) ==
    \E i \in 1..(Len(f) - Len(sub) + 1) : SubSeq(f, i, i + Len(sub) - 1) = sub

\* ------------------------------------------------------------ branch names
\* characters replaced by "_" : / \ : * ? " < > |
ReservedChars == {"/", "\\", ":", "*", "?", "\"", "<", ">", "|"}
\* \s
WhiteSpace == {" ", "\t"}

\* .replace(/\s+/g, '-') on a token sequence: the first character of each
\* run of whitespace becomes "-", the rest of the run goes ("" marks them)
CollapseWs(s) ==
    LET marked == [i \in 1..Len(s) |->
                      IF s[i] \notin WhiteSpace THEN s[i]
                      ELSE IF i > 1 /\ s[i - 1] \in WhiteSpace THEN "" ELSE "-"]
    IN  SelectSeq(marked, LAMBDA c : c # "")

\* C0/C1 control characters that are no whitespace, and private-use ones
ControlChars == {"U+0001", "U+0085"}
PrivateUse == {"U+E000"}

\* mutant: the first replace lacks the g flag, only the first reserved
\* character is replaced
sanitizeFirstOnly(branch) ==
    LET hits == { i \in 1..Len(branch) : branch[i] \in ReservedChars }
        r1 == [i \in 1..Len(branch) |->
                  IF i \in hits /\ \A j \in hits : i <= j THEN "_" ELSE branch[i]]
        r2 == CollapseWs(r1)
    IN  SubSeq(r2, 1, Min(Len(r2), MaxNameLen))

sanitizeBranchName(branch) ==
    LET r1 == [i \in 1..Len(branch) |->
                  IF branch[i] \in ReservedChars THEN "_" ELSE branch[i]]
        r2 == CollapseWs(r1)
    IN  SubSeq(r2, 1, Min(Len(r2), MaxNameLen))

\* str.trim()
RECURSIVE TrimStart(_)
TrimStart(s) ==
    IF s # <<>> /\ Head(s) \in WhiteSpace THEN TrimStart(Tail(s)) ELSE s

RECURSIVE TrimEnd(_)
TrimEnd(s) ==
    IF s # <<>> /\ s[Len(s)] \in WhiteSpace
    THEN TrimEnd(SubSeq(s, 1, Len(s) - 1)) ELSE s

\* GitOperations.sanitizeBranchName: as the store's, and control and
\* private-use characters are removed before the cut, the result trimmed
GitOperations_sanitizeBranchName(branch) ==
    LET r1 == [i \in 1..Len(branch) |->
                  IF branch[i] \in ReservedChars THEN "_" ELSE branch[i]]
        r2 == CollapseWs(r1)
        r3 == SelectSeq(r2, LAMBDA c : c \notin ControlChars)
        r4 == SelectSeq(r3, LAMBDA c : c \notin PrivateUse)
        r5 == SubSeq(r4, 1, Min(Len(r4), MaxNameLen))
    IN  TrimEnd(TrimStart(r5))

getBranchFile(branch) == sanitizeBranchName(branch) \o <<".", "json">>

getBackupFile(branch, timestamp) ==
    sanitizeBranchName(branch) \o <<".", "backup", ".", NumToStr(timestamp), ".", "json">>

\* mutant: the document is written in place, onto the canonical path
TempFileInPlace(filePath, t, r) == filePath

\* mutant: no random suffix, concurrent savers share one temp file
TempFileShared(filePath, t, r) ==
    filePath \o <<".", "tmp", ".", NumToStr(t)>>

\* `${filePath}.tmp.${Date.now()}.${random}`; the random suffix r is taken
\* to be unique per call of saveContext
TempFileName(filePath, t, r) ==
    filePath \o <<".", "tmp", ".", NumToStr(t), ".", "r", NumToStr(r)>>

\* the branch names the callers use
Branches == { <<"f", "/", "x">> }

\* two branch names with dots and digits: the canonical file name of the
\* second passes the backup filter of the first
KeyBranches == { <<"a">>, <<"a", ".", "backup", ".", "1">> }

\* the characters of the branch names handed to the store under SanSpec
SanAlphabet == {"a", "/", " ", "\t", "U+0001"}

\* a name of n characters: letters, with whitespace at the positions in ws
LongName(n, ws) == [i \in 1..n |-> IF i \in ws THEN " " ELSE "a"]

\* branch names of every kind: all short names over SanAlphabet, and names
\* around the length limit
SanNames ==
    UNION { [1..n -> SanAlphabet] : n \in 1..MaxSanLen }
       \cup { LongName(MaxNameLen + 1, {}),
              LongName(MaxNameLen + 2, {MaxNameLen, MaxNameLen + 1}) }

\* --------------------------------------------------------------- documents
Versions == {"1.0.0", "2.0.0"}

\* the document the n-th save hands to the store
MakeContext(branch, n) ==
    [branch |-> branch,
     version |-> IF n % 2 = 1 THEN "1.0.0" ELSE "2.0.0",
     data |-> n]

NoContext == [branch |-> <<>>, version |-> "", data |-> 0]

\* an optional payload sequence of a document: data.messages, data.todos,
\* data.files
Absent == [present |-> FALSE, items |-> <<>>]
Payload(items) == [present |-> TRUE, items |-> items]

\* data.messages?.length || 0
Count(payload) == IF payload.present THEN Len(payload.items) ELSE 0

\* a document with payload sequences and metadata counts
FullContext(branch, n, messages, todos, fs, mc, tc, fc) ==
    [branch |-> branch, version |-> "1.0.0", data |-> n,
     messages |-> messages, todos |-> todos, files |-> fs,
     messageCount |-> mc, todoCount |-> tc, fileCount |-> fc]

HasMetadata(ctx) == "messageCount" \in DOMAIN ctx

\* JSON.stringify leaves out a payload that is undefined
StringifyPayload(key, payload) ==
    IF payload.present THEN <<key, "[">> \o payload.items \o <<"]">> ELSE <<>>

\* JSON.stringify(context, null, 2) as a token sequence
Stringify(ctx) ==
    IF HasMetadata(ctx)
    THEN <<"{", "branch", "\"">> \o ctx.branch \o <<"\"">>
            \o StringifyPayload("messages", ctx.messages)
            \o StringifyPayload("todos", ctx.todos)
            \o StringifyPayload("files", ctx.files)
            \o <<"metadata", NumToStr(ctx.messageCount), NumToStr(ctx.todoCount),
                 NumToStr(ctx.fileCount),
                 "version", ctx.version, "data", NumToStr(ctx.data), "}">>
    ELSE <<"{", "branch", "\"">> \o ctx.branch
            \o <<"\"", "version", ctx.version, "data", NumToStr(ctx.data), "}">>

WellFormed(c) ==
    /\ Len(c) >= 9
    /\ c[1] = "{" /\ c[2] = "branch" /\ c[3] = "\""
    /\ c[Len(c)] = "}"
    /\ IsDigits(c[Len(c) - 1])
    /\ c[Len(c) - 2] = "data"
    /\ c[Len(c) - 4] = "version"
    /\ c[Len(c) - 5] = "\""

\* where the payload under key starts in c, 0 when c has none
PayloadAt(c, key) ==
    LET at == { i \in 1..(Len(c) - 1) : c[i] = key /\ c[i + 1] = "[" }
    IN  IF at = {} THEN 0 ELSE CHOOSE i \in at : \A j \in at : i <= j

\* the payload under key in c
ParsePayload(c, key) ==
    LET i == PayloadAt(c, key)
        close == { j \in (i + 2)..Len(c) : c[j] = "]" }
    IN  IF i = 0 \/ close = {} THEN Absent
        ELSE Payload(SubSeq(c, i + 2, (CHOOSE j \in close : \A k \in close : j <= k) - 1))

\* where the branch name of a document with metadata ends in c
BranchEnd(c) ==
    LET starts == { PayloadAt(c, k) : k \in {"messages", "todos", "files"} } \ {0}
        first == IF starts = {} THEN Len(c) - 8
                 ELSE CHOOSE i \in starts : \A j \in starts : i <= j
    IN  first - 1

WellFormedFull(c) ==
    /\ Len(c) >= 13
    /\ c[1] = "{" /\ c[2] = "branch" /\ c[3] = "\""
    /\ c[Len(c)] = "}"
    /\ IsDigits(c[Len(c) - 1])
    /\ c[Len(c) - 2] = "data"
    /\ c[Len(c) - 4] = "version"
    /\ IsDigits(c[Len(c) - 5]) /\ IsDigits(c[Len(c) - 6]) /\ IsDigits(c[Len(c) - 7])
    /\ c[Len(c) - 8] = "metadata"
    /\ BranchEnd(c) >= 4
    /\ c[BranchEnd(c)] = "\""

\* mutant: the parsed document loses its payload
ParseLossy(c) ==
    IF WellFormed(c)
    THEN [ok |-> TRUE,
          val |-> [branch |-> SubSeq(c, 4, Len(c) - 6),
                   version |-> c[Len(c) - 3],
                   data |-> 0]]
    ELSE [ok |-> FALSE, val |-> NoContext]

\* JSON.parse(content): ok = FALSE stands for the SyntaxError
Parse(c) ==
    IF WellFormed(c)
    THEN [ok |-> TRUE,
          val |-> [branch |-> SubSeq(c, 4, Len(c) - 6),
                   version |-> c[Len(c) - 3],
                   data |-> parseInt(c[Len(c) - 1])]]
    ELSE IF WellFormedFull(c)
    THEN [ok |-> TRUE,
          val |-> [branch |-> SubSeq(c, 4, BranchEnd(c) - 1),
                   version |-> c[Len(c) - 3],
                   data |-> parseInt(c[Len(c) - 1]),
                   messages |-> ParsePayload(c, "messages"),
                   todos |-> ParsePayload(c, "todos"),
                   files |-> ParsePayload(c, "files"),
                   messageCount |-> parseInt(c[Len(c) - 7]),
                   todoCount |-> parseInt(c[Len(c) - 6]),
                   fileCount |-> parseInt(c[Len(c) - 5])]]
    ELSE [ok |-> FALSE, val |-> NoContext]

\* bytes that are no JSON document
Garbage == <<"corrupted">>

\* what a file holds while it is being written: a proper prefix
Torn(c) == { SubSeq(c, 1, k) : k \in {0, Len(c) - 1} }


\* ---------------------------------------------------------- directory view
\* files whose name passes the backup filter of cleanOldBackups,
\* restoreFromBackup and deleteContext for this branch
IsBackupOf(f, branch) ==
    /\ startsWith(f, sanitizeBranchName(branch) \o <<".", "backup", ".">>)
    /\ endsWith(f, <<".", "json">>)

\* f.match(/\.backup\.(\d+)\.json$/) ? parseInt(match[1], 10) : 0
BackupTimestamp(f) ==
    IF /\ Len(f) >= 6
       /\ SubSeq(f, Len(f) - 5, Len(f) - 3) = <<".", "backup", ".">>
       /\ IsDigits(f[Len(f) - 2])
       /\ SubSeq(f, Len(f) - 1, Len(f)) = <<".", "json">>
    THEN parseInt(f[Len(f) - 2])
    ELSE 0

\* mutant: a.timestamp - b.timestamp, the oldest backup first
RECURSIVE SortedOldestFirst(_)
SortedOldestFirst(S) ==
    IF S = {} THEN { <<>> }
    ELSE LET low == { f \in S : \A g \in S : BackupTimestamp(f) <= BackupTimestamp(g) }
         IN  UNION { { <<f>> \o r : r \in SortedOldestFirst(S \ {f}) } : f \in low }

\* .sort((a, b) => b.timestamp - a.timestamp) of a directory listing whose
\* order is not specified: every sequence of S in descending timestamp order
RECURSIVE SortedByTimestamp(_)
SortedByTimestamp(S) ==
    IF S = {} THEN { <<>> }
    ELSE LET top == { f \in S : \A g \in S : BackupTimestamp(f) >= BackupTimestamp(g) }
         IN  UNION { { <<f>> \o r : r \in SortedByTimestamp(S \ {f}) } : f \in top }

\* .slice(n)
SliceFrom(s, n) == SubSeq(s, n + 1, Len(s))

\* ------------------------------------------------------------------- state
VARIABLES
    files,      \* the storage directory: file name -> content
    dirExists,  \* the storage directory exists
    now,        \* Date.now()
    proc,       \* per caller: the running operation and its locals
    issued,     \* number of saves started so far
    faults,     \* number of I/O failures and crashes injected so far
    corrupts,   \* number of external corruptions so far
    ops,        \* number of operations started so far (counted under Spec)
    hist,       \* per canonical path: the documents renamed onto it, oldest first
    git,        \* the repository: its git directory and the branch HEAD is on
    plugin,     \* the plugin: configuration, closure variables, running hooks
    monitor,    \* the BranchMonitor object and its running calls
    config,     \* the ConfigManager: defaults, user file, objects handed out
    tool,       \* the save tool: its running request and the results it returned
    collector   \* a ContextCollector: its configured limits and what it collected

\* what the store never touches
ext == <<git, plugin, monitor, config, tool, collector>>

vars == <<files, dirExists, now, proc, issued, faults, corrupts, ops, hist, git, plugin, monitor, config, tool, collector>>

CanonicalFiles == { getBranchFile(b) : b \in Branches \cup KeyBranches }

\* no repository, plugin, monitor or configuration manager is in play
NoGit == [gitDir |-> FALSE, head |-> <<>>]
NoPlugin == [loaded |-> FALSE]
NoMonitor == [constructed |-> FALSE]
NoConfig == [constructed |-> FALSE]
NoTool == [constructed |-> FALSE]
NoCollector == [constructed |-> FALSE]

NoResult == [status |-> "none", val |-> NoContext]

\* summary of a completed operation
NoOp == [op |-> "none", branch |-> <<>>, ctx |-> NoContext, status |-> "none"]

IdleProc ==
    [op |-> "none", pc |-> "idle", branch |-> <<>>, ctx |-> NoContext,
     tempFile |-> <<>>, backupFile |-> <<>>, buf |-> <<>>, list |-> <<>>,
     result |-> NoResult,
     errs |-> {},          \* the calls of this operation that failed
     alone |-> TRUE,       \* no other operation ran since this one began
     unread |-> {},        \* the files this operation failed to read
     pre |-> <<>>,         \* the directory when the operation began, while it runs alone
     prev |-> NoOp,        \* the save or delete this caller completed just before, both run alone
     collected |-> FALSE]  \* the document of this save was built by collectContext

Quiescent(p) == proc[p].pc \in {"idle", "done", "crashed"}

Exists(f) == f \in DOMAIN files

\* the directory with file f holding content c
WriteTo(fs, f, c) == [g \in DOMAIN fs \cup {f} |-> IF g = f THEN c ELSE fs[g]]

\* the directory without file f
Remove(fs, f) == [g \in DOMAIN fs \ {f} |-> fs[g]]

BackupsOf(branch) == { f \in DOMAIN files : IsBackupOf(f, branch) }

\* the directory a fresh store starts with: it does not exist yet
FreshStore ==
    /\ files = <<>>
    /\ dirExists = FALSE
    /\ now = Epoch
    /\ proc = [p \in Procs |-> IdleProc]
    /\ issued = 0
    /\ faults = 0
    /\ corrupts = 0
    /\ ops = 0
    /\ hist = [f \in CanonicalFiles |-> <<>>]

\* the store is used on its own: no plugin, no monitor, no configuration
StoreOnly ==
    /\ tool = NoTool /\ collector = NoCollector
    /\ git = NoGit
    /\ plugin = NoPlugin
    /\ monitor = NoMonitor
    /\ config = NoConfig

InitFresh == FreshStore /\ StoreOnly

\* the directory an earlier session left to the store: PriorSaves saves of a
\* branch, one per millisecond, each but the first backing up the document
\* before it
PriorDir(b) ==
    LET backups == { getBackupFile(b, t) : t \in 2..PriorSaves }
    IN  [f \in backups \cup {getBranchFile(b)} |->
            IF f = getBranchFile(b)
            THEN Stringify(MakeContext(b, PriorSaves))
            ELSE Stringify(MakeContext(b, BackupTimestamp(f) - 1))]

Populated(b) ==
    /\ files = PriorDir(b)
    /\ hist = [f \in CanonicalFiles |->
                 IF f = getBranchFile(b)
                 THEN [i \in 1..PriorSaves |-> MakeContext(b, i)]
                 ELSE <<>>]
    /\ dirExists = TRUE
    /\ now = Epoch
    /\ proc = [p \in Procs |-> IdleProc]
    /\ issued = 0
    /\ faults = 0
    /\ corrupts = 0
    /\ ops = 0
    /\ StoreOnly

InitPopulated == \E b \in Branches : Populated(b)

\* the store is constructed over a directory that does not exist yet or
\* over the directory of an earlier session
Init == InitFresh \/ InitPopulated

\* an I/O call fails
InjectFault ==
    /\ faults < MaxFaults
    /\ faults' = faults + 1

\* a caller starts an operation; no other operation is alone any more
StartOp(p, op, pc, branch, ctx) ==
    [q \in Procs |->
        IF q = p
        THEN [IdleProc EXCEPT
                 !.op = op, !.pc = pc, !.branch = branch, !.ctx = ctx,
                 !.alone = \A r \in Procs \ {p} : Quiescent(r),
                 !.pre = IF \A r \in Procs \ {p} : Quiescent(r) THEN files ELSE <<>>,
                 !.prev = IF proc[p].pc = "done" /\ proc[p].alone
                               /\ proc[p].op \in {"save", "delete"}
                               /\ \A r \in Procs \ {p} : Quiescent(r)
                          THEN [op |-> proc[p].op, branch |-> proc[p].branch,
                                ctx |-> proc[p].ctx, status |-> proc[p].result.status]
                          ELSE NoOp]
        ELSE [proc[q] EXCEPT !.alone = FALSE, !.pre = <<>>]]

Finish(p, status, val) ==
    [proc EXCEPT ![p].pc = "done", ![p].buf = <<>>, ![p].list = <<>>,
                 ![p].result = [status |-> status, val |-> val]]

\* ------------------------------------------------------------- saveContext
BeginSave(p, branch) ==
    /\ Quiescent(p)
    /\ proc' = StartOp(p, "save", "mkdir", branch, MakeContext(branch, PriorSaves + issued + 1))
    /\ issued' = issued + 1
    /\ UNCHANGED <<files, dirExists, now, faults, corrupts, ext, hist>>

\* ensureStorageDir: fs.mkdir(storageDir, {recursive: true}); a failure is
\* rethrown before the temp file name is even computed
EnsureStorageDir(p) ==
    /\ proc[p].op = "save"
    /\ proc[p].pc = "mkdir"
    /\ \/ /\ dirExists' = TRUE
          /\ proc' = [proc EXCEPT ![p].pc = "exists"]
          /\ UNCHANGED faults
       \/ /\ InjectFault
          /\ proc' = [Finish(p, "throw", NoContext) EXCEPT ![p].errs = @ \cup {"mkdir"}]
          /\ UNCHANGED dirExists
    /\ UNCHANGED <<files, now, issued, corrupts, ext, hist, ops>>

\* mutant: the existing file is never backed up
SaveExistsNoBackup(p) ==
    /\ proc[p].op = "save"
    /\ proc[p].pc = "exists"
    /\ proc' = [proc EXCEPT
                  ![p].tempFile = TempFileName(getBranchFile(proc[p].branch), now, proc[p].ctx.data),
                  ![p].pc = "write1"]
    /\ UNCHANGED <<files, dirExists, now, issued, faults, corrupts, ext, hist, ops>>

\* tempFile takes Date.now(); if (existsSync(filePath))
SaveExists(p) ==
    /\ proc[p].op = "save"
    /\ proc[p].pc = "exists"
    /\ LET filePath == getBranchFile(proc[p].branch)
       IN  proc' = [proc EXCEPT
                      ![p].tempFile = TempFileName(filePath, now, proc[p].ctx.data),
                      ![p].pc = IF Exists(filePath) THEN "exists2" ELSE "write1"]
    /\ UNCHANGED <<files, dirExists, now, issued, faults, corrupts, ext, hist, ops>>

\* createBackup: if (!existsSync(filePath)) return
BackupExists(p) ==
    /\ proc[p].op = "save"
    /\ proc[p].pc = "exists2"
    /\ proc' = [proc EXCEPT
                  ![p].pc = IF Exists(getBranchFile(proc[p].branch))
                            THEN "copy1" ELSE "write1"]
    /\ UNCHANGED <<files, dirExists, now, issued, faults, corrupts, ext, hist, ops>>

\* mutant: the backup is made by renaming the canonical file away
CopyOpenByRename(p) ==
    /\ proc[p].op = "save"
    /\ proc[p].pc = "copy1"
    /\ LET filePath == getBranchFile(proc[p].branch)
           backupFile == getBackupFile(proc[p].branch, now)
       IN  \/ /\ ~Exists(filePath)
              /\ proc' = [proc EXCEPT ![p].pc = "write1", ![p].errs = @ \cup {"copyFile:ENOENT"}]
              /\ UNCHANGED files
           \/ /\ Exists(filePath)
              /\ files' = Remove(WriteTo(files, backupFile, files[filePath]), filePath)
              /\ proc' = [proc EXCEPT ![p].pc = "copy2",
                                      ![p].backupFile = backupFile,
                                      ![p].buf = files[filePath]]
    /\ UNCHANGED <<dirExists, now, issued, faults, corrupts, ext, hist, ops>>

\* mutant: createBackup has no try/catch, a failing copy fails the save
CopyOpenThrows(p) ==
    /\ proc[p].op = "save"
    /\ proc[p].pc = "copy1"
    /\ LET filePath == getBranchFile(proc[p].branch)
           backupFile == getBackupFile(proc[p].branch, now)
       IN  \/ /\ ~Exists(filePath)
              /\ proc' = [proc EXCEPT ![p].pc = "cleanup", ![p].errs = @ \cup {"copyFile"}]
              /\ UNCHANGED <<files, faults>>
           \/ /\ Exists(filePath)
              /\ InjectFault
              /\ proc' = [proc EXCEPT ![p].pc = "cleanup", ![p].errs = @ \cup {"copyFile"}]
              /\ UNCHANGED files
           \/ /\ Exists(filePath)
              /\ \E t \in Torn(files[filePath]) :
                    files' = WriteTo(files, backupFile, t)
              /\ proc' = [proc EXCEPT ![p].pc = "copy2",
                                      ![p].backupFile = backupFile,
                                      ![p].buf = files[filePath]]
              /\ UNCHANGED faults
    /\ UNCHANGED <<dirExists, now, issued, corrupts, ext, hist, ops>>

\* createBackup: backupFile = getBackupFile(branch, Date.now());
\* fs.copyFile opens the source and creates or truncates the destination.
\* A missing source or a failure is caught by createBackup.
CopyOpen(p) ==
    /\ proc[p].op = "save"
    /\ proc[p].pc = "copy1"
    /\ LET filePath == getBranchFile(proc[p].branch)
           backupFile == getBackupFile(proc[p].branch, now)
       IN  \/ /\ ~Exists(filePath)
              /\ proc' = [proc EXCEPT ![p].pc = "write1", ![p].errs = @ \cup {"copyFile"}]
              /\ UNCHANGED <<files, faults>>
           \/ /\ Exists(filePath)
              /\ InjectFault
              /\ proc' = [proc EXCEPT ![p].pc = "write1", ![p].errs = @ \cup {"copyFile"}]
              /\ UNCHANGED files
           \/ /\ Exists(filePath)
              /\ \E t \in Torn(files[filePath]) :
                    files' = WriteTo(files, backupFile, t)
              /\ proc' = [proc EXCEPT ![p].pc = "copy2",
                                      ![p].backupFile = backupFile,
                                      ![p].buf = files[filePath]]
              /\ UNCHANGED faults
    /\ UNCHANGED <<dirExists, now, issued, corrupts, ext, hist, ops>>

\* mutant: fs.copyFile returns before the destination is complete
CopyFinishTruncates(p) ==
    /\ proc[p].op = "save"
    /\ proc[p].pc = "copy2"
    /\ proc' = [proc EXCEPT ![p].pc = "readdir"]
    /\ UNCHANGED <<files, dirExists, now, issued, faults, corrupts, ext, hist, ops>>

\* fs.copyFile completes the destination; on a failure it removes the
\* destination it created, and createBackup catches the error
CopyFinish(p) ==
    /\ proc[p].op = "save"
    /\ proc[p].pc = "copy2"
    /\ \/ /\ files' = IF Exists(proc[p].backupFile)
                      THEN WriteTo(files, proc[p].backupFile, proc[p].buf)
                      ELSE files
          /\ proc' = [proc EXCEPT ![p].pc = "readdir"]
          /\ UNCHANGED faults
       \/ /\ InjectFault
          /\ files' = Remove(files, proc[p].backupFile)
          /\ proc' = [proc EXCEPT ![p].pc = "write1", ![p].errs = @ \cup {"copyFile"}]
    /\ UNCHANGED <<dirExists, now, issued, corrupts, ext, hist, ops>>

\* mutant: cleanOldBackups keeps one backup less, slice(4)
CleanReaddirKeepsFour(p) ==
    /\ proc[p].op = "save"
    /\ proc[p].pc = "readdir"
    /\ \/ /\ \E order \in SortedByTimestamp(BackupsOf(proc[p].branch)) :
                LET excess == SliceFrom(order, KeepBackups - 1)
                IN  proc' = [proc EXCEPT
                               ![p].list = excess,
                               ![p].pc = IF excess = <<>> THEN "write1" ELSE "unlink"]
          /\ UNCHANGED faults
       \/ /\ InjectFault
          /\ proc' = [proc EXCEPT ![p].pc = "write1", ![p].errs = @ \cup {"readdir"}]
    /\ UNCHANGED <<files, dirExists, now, issued, corrupts, ext, hist, ops>>

\* cleanOldBackups: readdir, filter, sort by timestamp descending, slice(5);
\* a failure is caught and logged
CleanReaddir(p) ==
    /\ proc[p].op = "save"
    /\ proc[p].pc = "readdir"
    /\ \/ /\ \E order \in SortedByTimestamp(BackupsOf(proc[p].branch)) :
                LET excess == SliceFrom(order, KeepBackups)
                IN  proc' = [proc EXCEPT
                               ![p].list = excess,
                               ![p].pc = IF excess = <<>> THEN "write1" ELSE "unlink"]
          /\ UNCHANGED faults
       \/ /\ InjectFault
          /\ proc' = [proc EXCEPT ![p].pc = "write1", ![p].errs = @ \cup {"readdir"}]
    /\ UNCHANGED <<files, dirExists, now, issued, corrupts, ext, hist, ops>>

\* mutant: the loop of cleanOldBackups stops after its first unlink
CleanUnlinkFirstOnly(p) ==
    /\ proc[p].op = "save"
    /\ proc[p].pc = "unlink"
    /\ files' = Remove(files, Head(proc[p].list))
    /\ proc' = [proc EXCEPT ![p].list = <<>>, ![p].pc = "write1"]
    /\ UNCHANGED <<dirExists, now, issued, faults, corrupts, ext, hist, ops>>

\* cleanOldBackups: fs.unlink(backup).catch(() => {}) for each excess backup
CleanUnlink(p) ==
    /\ proc[p].op = "save"
    /\ proc[p].pc = "unlink"
    /\ \/ /\ files' = Remove(files, Head(proc[p].list))
          /\ proc' = [proc EXCEPT
                        ![p].list = Tail(@),
                        ![p].pc = IF Tail(proc[p].list) = <<>> THEN "write1" ELSE "unlink"]
          /\ UNCHANGED faults
       \/ /\ InjectFault
          /\ proc' = [proc EXCEPT
                        ![p].list = Tail(@),
                        ![p].errs = @ \cup {"unlink"},
                        ![p].pc = IF Tail(proc[p].list) = <<>> THEN "write1" ELSE "unlink"]
          /\ UNCHANGED files
    /\ UNCHANGED <<dirExists, now, issued, corrupts, ext, hist, ops>>

\* fs.writeFile(tempFile, ...) creates the temp file
WriteOpen(p) ==
    /\ proc[p].op = "save"
    /\ proc[p].pc = "write1"
    /\ \/ /\ \E t \in Torn(Stringify(proc[p].ctx)) :
                files' = WriteTo(files, proc[p].tempFile, t)
          /\ proc' = [proc EXCEPT ![p].pc = "write2"]
          /\ UNCHANGED faults
       \/ /\ InjectFault
          /\ proc' = [proc EXCEPT ![p].pc = "cleanup", ![p].errs = @ \cup {"writeFile"}]
          /\ UNCHANGED files
    /\ UNCHANGED <<dirExists, now, issued, corrupts, ext, hist, ops>>

\* fs.writeFile(tempFile, JSON.stringify(context, null, 2)) completes
WriteFinish(p) ==
    /\ proc[p].op = "save"
    /\ proc[p].pc = "write2"
    /\ \/ /\ files' = WriteTo(files, proc[p].tempFile, Stringify(proc[p].ctx))
          /\ proc' = [proc EXCEPT ![p].pc = "rename"]
          /\ UNCHANGED faults
       \/ /\ InjectFault
          /\ proc' = [proc EXCEPT ![p].pc = "cleanup", ![p].errs = @ \cup {"writeFile"}]
          /\ UNCHANGED files
    /\ UNCHANGED <<dirExists, now, issued, corrupts, ext, hist, ops>>

\* fs.rename(tempFile, filePath): the only mutation of the canonical path
Rename(p) ==
    /\ proc[p].op = "save"
    /\ proc[p].pc = "rename"
    /\ LET filePath == getBranchFile(proc[p].branch)
       IN  \/ /\ Exists(proc[p].tempFile)
              /\ files' = Remove(WriteTo(files, filePath, files[proc[p].tempFile]),
                                 proc[p].tempFile)
              /\ hist' = IF filePath \in CanonicalFiles
                         THEN [hist EXCEPT ![filePath] = Append(@, proc[p].ctx)]
                         ELSE hist
              /\ proc' = Finish(p, "ok", NoContext)
              /\ UNCHANGED faults
           \/ /\ ~Exists(proc[p].tempFile)
              /\ proc' = [proc EXCEPT ![p].pc = "cleanup", ![p].errs = @ \cup {"rename:ENOENT"}]
              /\ UNCHANGED <<files, hist, faults>>
           \/ /\ InjectFault
              /\ proc' = [proc EXCEPT ![p].pc = "cleanup", ![p].errs = @ \cup {"rename"}]
              /\ UNCHANGED <<files, hist>>
    /\ UNCHANGED <<dirExists, now, issued, corrupts, ext, ops>>

\* mutant: the catch block cleans up and does not rethrow
CleanupSwallows(p) ==
    /\ proc[p].op = "save"
    /\ proc[p].pc = "cleanup"
    /\ \/ /\ files' = Remove(files, proc[p].tempFile)
          /\ proc' = Finish(p, "ok", NoContext)
          /\ UNCHANGED faults
       \/ /\ InjectFault
          /\ proc' = [Finish(p, "ok", NoContext) EXCEPT ![p].errs = @ \cup {"cleanup"}]
          /\ UNCHANGED files
    /\ UNCHANGED <<dirExists, now, issued, corrupts, ext, hist, ops>>

\* mutant: the catch block rethrows without deleting the temp file
CleanupKeepsTemp(p) ==
    /\ proc[p].op = "save"
    /\ proc[p].pc = "cleanup"
    /\ proc' = Finish(p, "throw", NoContext)
    /\ UNCHANGED <<files, dirExists, now, issued, faults, corrupts, ext, hist, ops>>

\* catch: fs.unlink(tempFile).catch(() => {}); throw error
Cleanup(p) ==
    /\ proc[p].op = "save"
    /\ proc[p].pc = "cleanup"
    /\ \/ /\ files' = Remove(files, proc[p].tempFile)
          /\ proc' = Finish(p, "throw", NoContext)
          /\ UNCHANGED faults
       \/ /\ InjectFault
          /\ proc' = [Finish(p, "throw", NoContext) EXCEPT ![p].errs = @ \cup {"cleanup"}]
          /\ UNCHANGED files
    /\ UNCHANGED <<dirExists, now, issued, corrupts, ext, hist, ops>>


\* ------------------------------------------------------------- loadContext
CallLoadContext(p, branch) ==
    /\ Quiescent(p)
    /\ proc' = StartOp(p, "load", "exists", branch, NoContext)
    /\ UNCHANGED <<files, dirExists, now, issued, faults, corrupts, hist>>

\* a caller outside the plugin loads a branch
BeginLoad(p, branch) == CallLoadContext(p, branch) /\ UNCHANGED ext

\* mutant: a missing canonical file is restored from the backups
LoadExistsRestores(p) ==
    /\ proc[p].op = "load"
    /\ proc[p].pc = "exists"
    /\ proc' = IF Exists(getBranchFile(proc[p].branch))
               THEN [proc EXCEPT ![p].pc = "read"]
               ELSE [proc EXCEPT ![p].pc = "readdir"]
    /\ UNCHANGED <<files, dirExists, now, issued, faults, corrupts, ext, hist, ops>>

\* mutant: no existence check, the ENOENT of the read is thrown
LoadExistsThrows(p) ==
    /\ proc[p].op = "load"
    /\ proc[p].pc = "exists"
    /\ proc' = IF Exists(getBranchFile(proc[p].branch))
               THEN [proc EXCEPT ![p].pc = "read"]
               ELSE Finish(p, "throw", NoContext)
    /\ UNCHANGED <<files, dirExists, now, issued, faults, corrupts, ext, hist, ops>>

\* if (!existsSync(filePath)) return null
LoadExists(p) ==
    /\ proc[p].op = "load"
    /\ proc[p].pc = "exists"
    /\ proc' = IF Exists(getBranchFile(proc[p].branch))
               THEN [proc EXCEPT ![p].pc = "read"]
               ELSE Finish(p, "null", NoContext)
    /\ UNCHANGED <<files, dirExists, now, issued, faults, corrupts, ext, hist, ops>>

\* fs.readFile(filePath) and JSON.parse; the version check only logs.
\* A read error or a parse error goes to restoreFromBackup.
LoadRead(p) ==
    /\ proc[p].op = "load"
    /\ proc[p].pc = "read"
    /\ LET filePath == getBranchFile(proc[p].branch)
       IN  \/ /\ Exists(filePath)
              /\ proc' = IF Parse(files[filePath]).ok
                         THEN Finish(p, "ok", Parse(files[filePath]).val)
                         ELSE [proc EXCEPT ![p].pc = "readdir"]
              /\ UNCHANGED faults
           \/ /\ ~Exists(filePath)
              /\ proc' = [proc EXCEPT ![p].pc = "readdir", ![p].errs = @ \cup {"readFile:ENOENT"}]
              /\ UNCHANGED faults
           \/ /\ Exists(filePath)
              /\ InjectFault
              /\ proc' = [proc EXCEPT ![p].pc = "readdir",
                                      ![p].errs = @ \cup {"readFile"},
                                      ![p].unread = @ \cup {filePath}]
    /\ UNCHANGED <<files, dirExists, now, issued, corrupts, ext, hist, ops>>

\* mutant: a failing readdir is not caught
RestoreReaddirThrows(p) ==
    /\ proc[p].op = "load"
    /\ proc[p].pc = "readdir"
    /\ \/ /\ \E order \in SortedByTimestamp(BackupsOf(proc[p].branch)) :
                proc' = IF order = <<>>
                        THEN Finish(p, "null", NoContext)
                        ELSE [proc EXCEPT ![p].list = order, ![p].pc = "restore"]
          /\ UNCHANGED faults
       \/ /\ InjectFault
          /\ proc' = [Finish(p, "throw", NoContext) EXCEPT ![p].errs = @ \cup {"readdir"}]
    /\ UNCHANGED <<files, dirExists, now, issued, corrupts, ext, hist, ops>>

\* restoreFromBackup: readdir, filter, sort by timestamp descending; a
\* failure is caught and null is returned
RestoreReaddir(p) ==
    /\ proc[p].op = "load"
    /\ proc[p].pc = "readdir"
    /\ \/ /\ \E order \in SortedByTimestamp(BackupsOf(proc[p].branch)) :
                proc' = IF order = <<>>
                        THEN Finish(p, "null", NoContext)
                        ELSE [proc EXCEPT ![p].list = order, ![p].pc = "restore"]
          /\ UNCHANGED faults
       \/ /\ InjectFault
          /\ proc' = [Finish(p, "null", NoContext) EXCEPT ![p].errs = @ \cup {"readdir"}]
    /\ UNCHANGED <<files, dirExists, now, issued, corrupts, ext, hist, ops>>

\* restoreFromBackup: read and parse the next backup; return the first one
\* that parses, null when none is left
RestoreRead(p) ==
    /\ proc[p].op = "load"
    /\ proc[p].pc = "restore"
    /\ LET f == Head(proc[p].list)
           next == IF Tail(proc[p].list) = <<>>
                   THEN Finish(p, "null", NoContext)
                   ELSE [proc EXCEPT ![p].list = Tail(@)]
       IN  \/ /\ Exists(f)
              /\ proc' = IF Parse(files[f]).ok
                         THEN Finish(p, "ok", Parse(files[f]).val)
                         ELSE next
              /\ UNCHANGED faults
           \/ /\ ~Exists(f)
              /\ proc' = next
              /\ UNCHANGED faults
           \/ /\ Exists(f)
              /\ InjectFault
              /\ proc' = [next EXCEPT ![p].unread = @ \cup {f}]
    /\ UNCHANGED <<files, dirExists, now, issued, corrupts, ext, hist, ops>>

\* ----------------------------------------------------------- deleteContext
BeginDelete(p, branch) ==
    /\ Quiescent(p)
    /\ proc' = StartOp(p, "delete", "exists", branch, NoContext)
    /\ UNCHANGED <<files, dirExists, now, issued, faults, corrupts, ext, hist>>

\* if (existsSync(filePath))
DeleteExists(p) ==
    /\ proc[p].op = "delete"
    /\ proc[p].pc = "exists"
    /\ proc' = [proc EXCEPT
                  ![p].pc = IF Exists(getBranchFile(proc[p].branch))
                            THEN "unlinkMain" ELSE "readdir"]
    /\ UNCHANGED <<files, dirExists, now, issued, faults, corrupts, ext, hist, ops>>

\* fs.unlink(filePath).catch(() => {})
DeleteUnlinkMain(p) ==
    /\ proc[p].op = "delete"
    /\ proc[p].pc = "unlinkMain"
    /\ LET filePath == getBranchFile(proc[p].branch)
       IN  \/ /\ files' = Remove(files, filePath)
              /\ hist' = IF Exists(filePath) /\ filePath \in CanonicalFiles
                         THEN [hist EXCEPT ![filePath] = <<>>] ELSE hist
              /\ proc' = [proc EXCEPT ![p].pc = "readdir"]
              /\ UNCHANGED faults
           \/ /\ InjectFault
              /\ proc' = [proc EXCEPT ![p].pc = "readdir", ![p].errs = @ \cup {"unlinkMain"}]
              /\ UNCHANGED <<files, hist>>
    /\ UNCHANGED <<dirExists, now, issued, corrupts, ext, ops>>

\* fs.readdir(storageDir) and the backup filter; a failure (also a missing
\* directory) is caught and logged
DeleteReaddir(p) ==
    /\ proc[p].op = "delete"
    /\ proc[p].pc = "readdir"
    /\ \/ /\ dirExists
          /\ \E order \in SortedByTimestamp(BackupsOf(proc[p].branch)) :
                proc' = IF order = <<>>
                        THEN Finish(p, "ok", NoContext)
                        ELSE [proc EXCEPT ![p].list = order, ![p].pc = "unlink"]
          /\ UNCHANGED faults
       \/ /\ ~dirExists
          /\ proc' = [Finish(p, "ok", NoContext) EXCEPT ![p].errs = @ \cup {"readdir:ENOENT"}]
          /\ UNCHANGED faults
       \/ /\ dirExists
          /\ InjectFault
          /\ proc' = [Finish(p, "ok", NoContext) EXCEPT ![p].errs = @ \cup {"readdir"}]
    /\ UNCHANGED <<files, dirExists, now, issued, corrupts, ext, hist, ops>>

\* fs.unlink(backup).catch(() => {}) for each backup
DeleteUnlink(p) ==
    /\ proc[p].op = "delete"
    /\ proc[p].pc = "unlink"
    /\ LET next == IF Tail(proc[p].list) = <<>>
                   THEN Finish(p, "ok", NoContext)
                   ELSE [proc EXCEPT ![p].list = Tail(@)]
       IN  \/ /\ files' = Remove(files, Head(proc[p].list))
              /\ proc' = next
              /\ UNCHANGED faults
           \/ /\ InjectFault
              /\ proc' = [next EXCEPT ![p].errs = @ \cup {"unlink"}]
              /\ UNCHANGED files
    /\ UNCHANGED <<dirExists, now, issued, corrupts, ext, hist, ops>>

\* ------------------------------------------------------------ listBranches
\* fs.readdir returns the names in no specified order: every order of S
RECURSIVE AnyOrder(_)
AnyOrder(S) ==
    IF S = {} THEN { <<>> }
    ELSE UNION { { <<f>> \o r : r \in AnyOrder(S \ {f}) } : f \in S }

\* file.endsWith('.json') && !file.includes('.backup.')
IsListed(f) ==
    /\ endsWith(f, <<".", "json">>)
    /\ ~includes(f, <<".", "backup", ".">>)

BeginList(p) ==
    /\ Quiescent(p)
    /\ proc' = StartOp(p, "list", "mkdir", <<>>, NoContext)
    /\ UNCHANGED <<files, dirExists, now, issued, faults, corrupts, ext, hist>>

\* the listing returns: the branch names collected are kept in buf
FinishList(p, branches) ==
    [proc EXCEPT ![p].pc = "done", ![p].buf = branches, ![p].list = <<>>,
                 ![p].result = [status |-> "ok", val |-> NoContext]]

\* await this.ensureStorageDir(); a failure is caught by listBranches,
\* which returns []
ListMkdir(p) ==
    /\ proc[p].op = "list"
    /\ proc[p].pc = "mkdir"
    /\ \/ /\ dirExists' = TRUE
          /\ proc' = [proc EXCEPT ![p].pc = "readdir"]
          /\ UNCHANGED faults
       \/ /\ InjectFault
          /\ proc' = [FinishList(p, <<>>) EXCEPT ![p].errs = @ \cup {"mkdir"}]
          /\ UNCHANGED dirExists
    /\ UNCHANGED <<files, now, issued, corrupts, ext, hist, ops>>

\* fs.readdir(storageDir); the loop looks only at the names that pass the
\* filter; a failure is caught and [] returned
ListReaddir(p) ==
    /\ proc[p].op = "list"
    /\ proc[p].pc = "readdir"
    /\ \/ /\ \E order \in AnyOrder({ f \in DOMAIN files : IsListed(f) }) :
                proc' = IF order = <<>>
                        THEN FinishList(p, <<>>)
                        ELSE [proc EXCEPT ![p].list = order, ![p].buf = <<>>,
                                          ![p].pc = "read"]
          /\ UNCHANGED faults
       \/ /\ InjectFault
          /\ proc' = [FinishList(p, <<>>) EXCEPT ![p].errs = @ \cup {"readdir"}]
    /\ UNCHANGED <<files, dirExists, now, issued, corrupts, ext, hist, ops>>

\* fs.readFile(file), JSON.parse, branches.push(data.branch); a file that
\* cannot be read or parsed is skipped
ListRead(p) ==
    /\ proc[p].op = "list"
    /\ proc[p].pc = "read"
    /\ LET file == Head(proc[p].list)
           after(branches, failed) ==
               IF Tail(proc[p].list) = <<>>
               THEN [FinishList(p, branches) EXCEPT ![p].unread = @ \cup failed]
               ELSE [proc EXCEPT ![p].list = Tail(@), ![p].buf = branches,
                                 ![p].unread = @ \cup failed]
       IN  \/ /\ Exists(file)
              /\ proc' = IF Parse(files[file]).ok
                         THEN after(Append(proc[p].buf, Parse(files[file]).val.branch), {})
                         ELSE after(proc[p].buf, {})
              /\ UNCHANGED faults
           \/ /\ ~Exists(file)
              /\ proc' = after(proc[p].buf, {file})
              /\ UNCHANGED faults
           \/ /\ Exists(file)
              /\ InjectFault
              /\ proc' = after(proc[p].buf, {file})
    /\ UNCHANGED <<files, dirExists, now, issued, corrupts, ext, hist, ops>>

\* one step of the listing that caller p runs
ListStep(p) == ListMkdir(p) \/ ListReaddir(p) \/ ListRead(p)

\* ------------------------------------------------------------- getMetadata
BeginMetadata(p, branch) ==
    /\ Quiescent(p)
    /\ proc' = StartOp(p, "getMetadata", "exists", branch, NoContext)
    /\ UNCHANGED <<files, dirExists, now, issued, faults, corrupts, ext, hist>>

\* mutant: getMetadata creates the storage directory first, as
\* listBranches does
MetaExistsMkdir(p) ==
    /\ proc[p].op = "getMetadata"
    /\ proc[p].pc = "exists"
    /\ dirExists' = TRUE
    /\ proc' = IF Exists(getBranchFile(proc[p].branch))
               THEN [proc EXCEPT ![p].pc = "read"]
               ELSE Finish(p, "never", NoContext)
    /\ UNCHANGED <<files, now, issued, faults, corrupts, ext, hist, ops>>

\* if (!existsSync(filePath)) return { size: '0KB', modified: 'Never', ... }
MetaExists(p) ==
    /\ proc[p].op = "getMetadata"
    /\ proc[p].pc = "exists"
    /\ proc' = IF Exists(getBranchFile(proc[p].branch))
               THEN [proc EXCEPT ![p].pc = "read"]
               ELSE Finish(p, "never", NoContext)
    /\ UNCHANGED <<files, dirExists, now, issued, faults, corrupts, ext, hist, ops>>

\* fs.readFile(filePath) and JSON.parse; a document with metadata carries
\* metadata.size (the collector writes it), any other is measured with
\* fs.stat. Every error is caught and reported as size 'Error'.
MetaRead(p) ==
    /\ proc[p].op = "getMetadata"
    /\ proc[p].pc = "read"
    /\ LET filePath == getBranchFile(proc[p].branch)
       IN  \/ /\ Exists(filePath)
              /\ proc' = IF ~Parse(files[filePath]).ok
                         THEN Finish(p, "error", NoContext)
                         ELSE IF HasMetadata(Parse(files[filePath]).val)
                         THEN Finish(p, "ok", Parse(files[filePath]).val)
                         ELSE [proc EXCEPT ![p].pc = "stat", ![p].buf = files[filePath]]
              /\ UNCHANGED faults
           \/ /\ ~Exists(filePath)
              /\ proc' = [Finish(p, "error", NoContext) EXCEPT
                            ![p].errs = @ \cup {"readFile:ENOENT"}]
              /\ UNCHANGED faults
           \/ /\ Exists(filePath)
              /\ InjectFault
              /\ proc' = [Finish(p, "error", NoContext) EXCEPT
                            ![p].errs = @ \cup {"readFile"}]
    /\ UNCHANGED <<files, dirExists, now, issued, corrupts, ext, hist, ops>>

\* fs.stat(filePath) for the size of a document without metadata.size
MetaStat(p) ==
    /\ proc[p].op = "getMetadata"
    /\ proc[p].pc = "stat"
    /\ LET filePath == getBranchFile(proc[p].branch)
       IN  \/ /\ Exists(filePath)
              /\ proc' = Finish(p, "ok", Parse(proc[p].buf).val)
              /\ UNCHANGED faults
           \/ /\ ~Exists(filePath)
              /\ proc' = [Finish(p, "error", NoContext) EXCEPT
                            ![p].errs = @ \cup {"stat:ENOENT"}]
              /\ UNCHANGED faults
           \/ /\ Exists(filePath)
              /\ InjectFault
              /\ proc' = [Finish(p, "error", NoContext) EXCEPT
                            ![p].errs = @ \cup {"stat"}]
    /\ UNCHANGED <<files, dirExists, now, issued, corrupts, ext, hist, ops>>

\* one step of the getMetadata that caller p runs
MetaStep(p) == MetaExists(p) \/ MetaRead(p) \/ MetaStat(p)

\* ------------------------------------------------------------- environment
\* the millisecond clock advances
Tick ==
    /\ now' = now + 1
    /\ UNCHANGED <<files, dirExists, proc, issued, faults, corrupts, ext, hist, ops>>

\* the process of a running operation dies; nothing of it runs any more
Crash(p) ==
    /\ ~Quiescent(p)
    /\ InjectFault
    /\ proc' = [proc EXCEPT ![p].pc = "crashed"]
    /\ UNCHANGED <<files, dirExists, now, issued, corrupts, ext, hist, ops>>

\* something outside the store overwrites a canonical file with garbage,
\* between two operations (the callers' finished operations are forgotten)
Corrupt(f) ==
    /\ Exists(f)
    /\ \A p \in Procs : Quiescent(p)
    /\ corrupts < MaxCorrupt
    /\ corrupts' = corrupts + 1
    /\ files' = WriteTo(files, f, Garbage)
    /\ proc' = [p \in Procs |-> IdleProc]
    /\ UNCHANGED <<dirExists, now, issued, faults, hist, ops, ext>>

\* one step of the save that caller p runs
SaveStep(p) ==
    \/ EnsureStorageDir(p) \/ SaveExists(p) \/ BackupExists(p)
    \/ CopyOpen(p) \/ CopyFinish(p) \/ CleanReaddir(p) \/ CleanUnlink(p)
    \/ WriteOpen(p) \/ WriteFinish(p) \/ Rename(p) \/ Cleanup(p)

\* one step of the load that caller p runs
LoadStep(p) ==
    \/ LoadExists(p) \/ LoadRead(p) \/ RestoreReaddir(p) \/ RestoreRead(p)

\* one step of the delete that caller p runs
DeleteStep(p) ==
    \/ DeleteExists(p) \/ DeleteUnlinkMain(p) \/ DeleteReaddir(p) \/ DeleteUnlink(p)

\* one step of the operation that caller p runs
Step(p) == SaveStep(p) \/ LoadStep(p) \/ DeleteStep(p)

\* ---------------------------------------------------------- specifications
\* an operation is started, within the budget of Spec
CountOp ==
    /\ ops < MaxOps
    /\ ops' = ops + 1

\* an operation is started, within the budget of KeySpec
CountKeyOp ==
    /\ ops < MaxKeyOps
    /\ ops' = ops + 1

\* concurrent callers; nothing but the store touches the directory
Next ==
    \/ now < Epoch + MaxClock /\ Tick
    \/ \E p \in Procs : Crash(p)
    \/ \E p \in Procs, b \in Branches : CountOp /\ BeginSave(p, b)
    \/ \E p \in Procs, b \in Branches : CountOp /\ BeginLoad(p, b)
    \/ \E p \in Procs, b \in Branches : CountOp /\ BeginDelete(p, b)
    \/ \E p \in Procs : Step(p)

Spec == Init /\ [][Next]_vars

\* a single caller, one operation at a time; canonical files may be
\* corrupted from outside between operations
SeqNext ==
    \/ now < Epoch + MaxSeqClock /\ Tick
    \/ Crash(1)
    \/ \E f \in CanonicalFiles : Corrupt(f)
    \/ \E b \in Branches : issued < MaxSeqSaves /\ BeginSave(1, b) /\ UNCHANGED ops
    \/ \E b \in Branches : BeginLoad(1, b) /\ UNCHANGED ops
    \/ \E b \in Branches : BeginDelete(1, b) /\ UNCHANGED ops
    \/ Step(1)

SeqSpec == Init /\ [][SeqNext]_vars


\* a single caller that only saves, one save after the other, starting with
\* no directory: backup rotation
RotNext ==
    \/ now < Epoch + MaxRotClock /\ Tick
    \/ \E b \in Branches : issued < MaxRotSaves /\ BeginSave(1, b) /\ UNCHANGED ops
    \/ SaveStep(1)

RotSpec == InitFresh /\ [][RotNext]_vars

\* several callers, each saving once, over the directory an earlier session
\* left: concurrent backup creation and pruning
PruneNext ==
    \/ now < Epoch + MaxPruneClock /\ Tick
    \/ \E p \in Procs, b \in Branches :
          proc[p].op = "none" /\ BeginSave(p, b) /\ UNCHANGED ops
    \/ \E p \in Procs : SaveStep(p)

PruneSpec == InitPopulated /\ [][PruneNext]_vars

\* a single caller, one operation at a time, on two branches whose names
\* contain dots and digits; the directory starts missing or as an earlier
\* session on the first branch left it
KeyInit == InitFresh \/ Populated(<<"a">>)

KeyNext ==
    \/ now < Epoch + MaxKeyClock /\ Tick
    \/ \E f \in CanonicalFiles : Corrupt(f)
    \/ \E b \in KeyBranches : CountKeyOp /\ BeginSave(1, b)
    \/ \E b \in KeyBranches : CountKeyOp /\ BeginLoad(1, b)
    \/ \E b \in KeyBranches : CountKeyOp /\ BeginDelete(1, b)
    \/ CountKeyOp /\ BeginList(1)
    \/ Step(1)
    \/ ListStep(1)

KeySpec == KeyInit /\ [][KeyNext]_vars

\* ---------------------------------------------------------- collectContext
\* messages.slice(-n)
SliceLast(s, n) ==
    IF n = 0 \/ n >= Len(s) THEN s ELSE SubSeq(s, Len(s) - n + 1, Len(s))

\* todos.slice(0, n)
SliceFirst(s, n) == IF n >= Len(s) THEN s ELSE SubSeq(s, 1, n)

\* what the session and the work tree hold when a document is collected
Sessions ==
    [messages : { [i \in 1..k |-> "m"] : k \in 0..MaxSession },
     todos : { [i \in 1..k |-> "t"] : k \in 0..MaxSession },
     files : { [i \in 1..k |-> "p"] : k \in 0..1 }]

\* collectMessages() of a collector configured with the given maxMessages
collectMessagesUpTo(limit, client, session) ==
    IF client THEN SliceLast(session.messages, limit) ELSE <<>>

\* collectTodos() of a collector configured with the given maxTodos
collectTodosUpTo(limit, client, session) ==
    IF client THEN SliceFirst(session.todos, limit) ELSE <<>>

collectMessages(client, session) == collectMessagesUpTo(maxMessages, client, session)

collectTodos(client, session) == collectTodosUpTo(maxTodos, client, session)

\* mutant: the counts are taken from the session before the limits apply
collectContextUnlimited(currentBranch, n, includeMessages, includeTodos, includeFiles, client, session) ==
    LET messages == IF includeMessages THEN Payload(collectMessages(client, session)) ELSE Absent
        todos == IF includeTodos THEN Payload(collectTodos(client, session)) ELSE Absent
        fs == IF includeFiles THEN Payload(session.files) ELSE Absent
    IN  FullContext(currentBranch, n, messages, todos, fs,
                    Len(session.messages), Len(session.todos), Len(session.files))

\* the document of the session: the payloads asked for and their counts
collectContext(currentBranch, n, includeMessages, includeTodos, includeFiles, client, session) ==
    LET messages == IF includeMessages THEN Payload(collectMessages(client, session)) ELSE Absent
        todos == IF includeTodos THEN Payload(collectTodos(client, session)) ELSE Absent
        fs == IF includeFiles THEN Payload(session.files) ELSE Absent
    IN  FullContext(currentBranch, n, messages, todos, fs,
                    Count(messages), Count(todos), Count(fs))

\* saveContext(branch, context) for a document the caller hands over
CallSaveContext(p, branch, context, collected) ==
    /\ Quiescent(p)
    /\ proc' = [StartOp(p, "save", "mkdir", branch, context) EXCEPT ![p].collected = collected]
    /\ issued' = issued + 1
    /\ UNCHANGED <<files, dirExists, now, faults, corrupts, hist>>

\* a caller outside the plugin hands a document to saveContext
SaveDocument(p, branch, context, collected) ==
    CallSaveContext(p, branch, context, collected) /\ UNCHANGED ext

\* the save tool and the plugin: collectContext, then saveContext
CollectAndSave(p, branch) ==
    \E includeMessages, includeTodos, includeFiles, client \in BOOLEAN, session \in Sessions :
        SaveDocument(p, branch,
                     collectContext(branch, PriorSaves + issued + 1, includeMessages,
                                    includeTodos, includeFiles, client, session),
                     TRUE)

\* the documents a caller of the store builds by hand, with metadata of
\* its own choice and no payload sequences
HandBuilt(branch, n) ==
    { FullContext(branch, n, Absent, Absent, Absent, mc, tc, fc) :
        mc \in 0..MaxCount, tc \in 0..MaxCount, fc \in 0..MaxCount }

\* a caller of the store saves a document it built itself
SaveHandBuilt(p, branch) ==
    \E context \in HandBuilt(branch, PriorSaves + issued + 1) :
        SaveDocument(p, branch, context, FALSE)

DocNext ==
    \/ now < Epoch + MaxDocClock /\ Tick
    \/ \E b \in Branches : issued < MaxDocSaves /\ CollectAndSave(1, b) /\ UNCHANGED ops
    \/ \E b \in Branches : issued < MaxDocSaves /\ SaveHandBuilt(1, b) /\ UNCHANGED ops
    \/ EnsureStorageDir(1) \/ SaveExists(1) \/ BackupExists(1)
    \/ CopyOpen(1) \/ CopyFinish(1) \/ CleanReaddir(1)
    \/ WriteOpen(1) \/ WriteFinish(1) \/ Rename(1) \/ Cleanup(1)

\* documents with metadata saved by one caller to a fresh store
DocSpec == InitFresh /\ [][DocNext]_vars

\* a single caller that saves collected documents, loads and asks for
\* metadata, one operation
\* at a time; canonical files may be corrupted from outside
ReadNext ==
    \/ now < Epoch + MaxReadClock /\ Tick
    \/ \E f \in CanonicalFiles : Corrupt(f)
    \/ \E b \in Branches : issued < MaxReadSaves /\ CollectAndSave(1, b) /\ UNCHANGED ops
    \/ \E b \in Branches : BeginLoad(1, b) /\ UNCHANGED ops
    \/ \E b \in Branches : BeginMetadata(1, b) /\ UNCHANGED <<ops, ext>>
    \/ SaveStep(1) \/ LoadStep(1) \/ MetaStep(1)

ReadSpec == Init /\ [][ReadNext]_vars

\* a single caller saves under branch names of every kind, starting with
\* no directory; with so few saves pruning finds nothing to unlink
SanNext ==
    \/ \E b \in SanNames : issued < MaxSanSaves /\ BeginSave(1, b) /\ UNCHANGED ops
    \/ EnsureStorageDir(1) \/ SaveExists(1) \/ BackupExists(1)
    \/ CopyOpen(1) \/ CopyFinish(1) \/ CleanReaddir(1)
    \/ WriteOpen(1) \/ WriteFinish(1) \/ Rename(1) \/ Cleanup(1)

SanSpec == InitFresh /\ [][SanNext]_vars

\* ================================================================== claims
\* the documents handed to a save call so far
SavedDocs == { MakeContext(b, n) : b \in Branches, n \in 1..(PriorSaves + issued) }

Last(s) == s[Len(s)]

\* a load that ran alone and has returned
LoadDone(p) == proc[p].op = "load" /\ proc[p].pc = "done" /\ proc[p].alone

\* a save that ran alone and has returned
SaveDone(p) == proc[p].op = "save" /\ proc[p].pc = "done" /\ proc[p].alone

\* the injected failures that saveContext rethrows
HardFaults == {"mkdir", "writeFile", "rename"}

\* C1: under any interleaving of saves (with loads and deletes running
\* concurrently), a canonical file that exists holds exactly the complete
\* serialized document of one save call, and what a load returns is the
\* document of one save call: never truncated content, never a mix.
C1_CanonicalNeverTorn ==
    /\ \A f \in CanonicalFiles :
          Exists(f) => \E d \in SavedDocs : files[f] = Stringify(d)
    /\ \A p \in Procs :
          (proc[p].op = "load" /\ proc[p].result.status = "ok")
             => proc[p].result.val \in SavedDocs

\* C1 witness: a canonical file exists while another save has its temp file
\* half written and a load is about to read the canonical file
C1_Witness ==
    \E p, q \in Procs :
        /\ proc[p].op = "save" /\ proc[p].pc = "write2"
        /\ Exists(proc[p].tempFile)
        /\ files[proc[p].tempFile] # Stringify(proc[p].ctx)
        /\ Exists(getBranchFile(proc[p].branch))
        /\ proc[q].op = "load" /\ proc[q].pc = "read"
        /\ proc[q].branch = proc[p].branch

\* C2: concurrent saves to one key that return and were hit by no injected
\* failure all return successfully; the canonical file holds the complete
\* document of the save whose rename was executed last; and a load that
\* follows (running alone, its read not failing) returns that document.
C2_LastRenameWins ==
    /\ \A p \in Procs :
          (proc[p].op = "save" /\ proc[p].pc = "done"
              /\ proc[p].errs \cap HardFaults = {})
             => proc[p].result.status = "ok"
    /\ \A f \in CanonicalFiles :
          hist[f] # <<>> => Exists(f) /\ files[f] = Stringify(Last(hist[f]))
    /\ \A p \in Procs :
          (LoadDone(p) /\ hist[getBranchFile(proc[p].branch)] # <<>>
              /\ proc[p].errs = {})
             => proc[p].result =
                   [status |-> "ok", val |-> Last(hist[getBranchFile(proc[p].branch)])]

\* C2 witness: of two saves, the one started second renamed first and the
\* one started first renamed last, so the two overlapped; the second has
\* returned successfully and the load that follows returns the document of
\* the first
C2_Witness ==
    \E p, q \in Procs, b \in Branches :
        LET h == hist[getBranchFile(b)]
        IN  /\ p # q
            /\ proc[q].op = "save" /\ proc[q].pc = "done" /\ proc[q].branch = b
            /\ proc[q].result.status = "ok"
            /\ Len(h) >= 2
            /\ h[Len(h) - 1] = proc[q].ctx
            /\ Last(h) = MakeContext(b, proc[q].ctx.data - 1)
            /\ LoadDone(p) /\ proc[p].branch = b
            /\ proc[p].result = [status |-> "ok", val |-> Last(h)]

\* ------------------------------------------------------------ the repository
\* the branches of the repository
RepoBranches == Branches \cup { <<"a">> }

\* HEAD on no branch: detached, or no repository
NoBranch == <<>>

\* GitOperations.getCurrentBranch(): the branch HEAD is on, null otherwise
getCurrentBranch == IF git.gitDir THEN git.head ELSE NoBranch

\* GitOperations.getGitDir(): null outside a repository
getGitDir == git.gitDir

\* somebody checks out another branch or detaches HEAD
Checkout(b) ==
    /\ git.gitDir
    /\ b # git.head
    /\ git' = [git EXCEPT !.head = b]

\* ------------------------------------------------------------ BranchMonitor
\* the callbacks a monitor can hold: the constructor's and two more
Callbacks == {"ctor", "a", "b"}

\* monitoring.method
Methods == {"watcher", "polling", "both"}

\* a call of start() or checkBranchChange() that is not running
IdleCall ==
    [op |-> "none", pc |-> "idle",
     oldBranch |-> NoBranch, newBranch |-> NoBranch,
     i |-> 0,              \* the array index the for-of loop is at
     cb |-> "none",        \* the callback being awaited
     detected |-> FALSE,   \* the check found the branch changed
     registered |-> <<>>,  \* changeCallbacks when the change was detected
     removed |-> {},       \* callbacks offChange removed since then
     invoked |-> <<>>,     \* the callbacks this check invoked, with their arguments
     threw |-> {},         \* the callbacks that threw
     gitDir |-> FALSE,     \* start(): a git directory was found
     created |-> 0,        \* start(): watchers and timers this call created
     readAt |-> 0,         \* check: the calls made when getCurrentBranch() read HEAD
     wasActive |-> FALSE,  \* start(): isMonitoring when it was called
     setActive |-> FALSE]  \* start(): this call set isMonitoring

\* new BranchMonitor(onBranchChange, config)
NewMonitor(method) ==
    [constructed |-> TRUE,
     method |-> method,
     isMonitoring |-> FALSE,
     watcher |-> FALSE,          \* this.watcher is set
     pollingInterval |-> FALSE,  \* this.pollingInterval is set
     currentBranch |-> NoBranch,
     changeCallbacks |-> <<"ctor">>,
     calls |-> [p \in Procs |-> IdleCall],
     openWatchers |-> 0,         \* watchers created and not closed
     openTimers |-> 0,           \* intervals set and not cleared
     last |-> "new",             \* the call that returned last
     noop |-> TRUE,              \* that call left every field as it was
     before |-> FALSE,           \* isMonitoring when that call was made
     rounds |-> {},              \* the rounds of callbacks the checks of CheckSpec began
     count |-> 0]                \* calls made so far

CallIdle(p) == monitor.calls[p].pc \in {"idle", "done"}

\* the fields of the monitor object
Fields(m) ==
    <<m.isMonitoring, m.watcher, m.pollingInterval, m.currentBranch,
      m.changeCallbacks, m.openWatchers, m.openTimers>>

\* a call of the monitor's interface is made, within the budget
CountCall(m) == [m EXCEPT !.count = @ + 1]

\* start(): entry; returns at once on an active monitor
BeginStart(p) ==
    /\ monitor.constructed /\ CallIdle(p)
    /\ monitor.count < MaxMonitorCalls
    /\ IF monitor.isMonitoring
       THEN monitor' = [CountCall(monitor) EXCEPT
                           !.calls[p] = [IdleCall EXCEPT !.op = "start", !.pc = "done",
                                                         !.wasActive = TRUE],
                           !.last = "start", !.noop = TRUE]
       ELSE monitor' = [CountCall(monitor) EXCEPT
                           !.calls[p] = [IdleCall EXCEPT !.op = "start", !.pc = "gitDir"]]
    /\ UNCHANGED <<files, dirExists, now, proc, issued, faults, corrupts, ops, hist,
                   git, plugin, config, tool, collector>>

\* start(): getGitDir() has resolved
StartGitDir(p) ==
    /\ monitor.calls[p].op = "start" /\ monitor.calls[p].pc = "gitDir"
    /\ IF getGitDir
       THEN monitor' = [monitor EXCEPT !.calls[p].pc = "branch", !.calls[p].gitDir = TRUE]
       ELSE monitor' = [monitor EXCEPT !.calls[p].pc = "done",
                                       !.last = "start", !.noop = TRUE]
    /\ UNCHANGED <<files, dirExists, now, proc, issued, faults, corrupts, ops, hist,
                   git, plugin, config, tool, collector>>

\* startWatcher(gitDir); chokidar.watch may throw, which is swallowed
startWatcher(m, ok) ==
    IF ok THEN [m EXCEPT !.watcher = TRUE, !.openWatchers = @ + 1] ELSE m

\* startPolling()
startPolling(m) == [m EXCEPT !.pollingInterval = TRUE, !.openTimers = @ + 1]

\* start(): getCurrentBranch() has resolved; watcher and timer are created
\* and the monitor becomes active
StartBranch(p) ==
    /\ monitor.calls[p].op = "start" /\ monitor.calls[p].pc = "branch"
    /\ \E ok \in BOOLEAN :
          LET m0 == [monitor EXCEPT !.currentBranch = getCurrentBranch]
              m1 == IF m0.method \in {"watcher", "both"} THEN startWatcher(m0, ok) ELSE m0
              m2 == IF m1.method \in {"polling", "both"} THEN startPolling(m1) ELSE m1
          IN  IF getCurrentBranch = NoBranch
              THEN monitor' = [m0 EXCEPT !.calls[p].pc = "done",
                                         !.last = "start",
                                         !.noop = (Fields(m0) = Fields(monitor))]
              ELSE monitor' = [m2 EXCEPT
                                  !.isMonitoring = TRUE,
                                  !.calls[p].pc = "done", !.calls[p].setActive = TRUE,
                                  !.calls[p].newBranch = getCurrentBranch,
                                  !.calls[p].created =
                                      (m2.openWatchers - monitor.openWatchers)
                                      + (m2.openTimers - monitor.openTimers),
                                  !.last = "start", !.noop = FALSE]
    /\ UNCHANGED <<files, dirExists, now, proc, issued, faults, corrupts, ops, hist,
                   git, plugin, config, tool, collector>>

\* stopWatcher()
stopWatcher(m) ==
    IF m.watcher THEN [m EXCEPT !.watcher = FALSE, !.openWatchers = @ - 1] ELSE m

\* stopPolling()
stopPolling(m) ==
    IF m.pollingInterval THEN [m EXCEPT !.pollingInterval = FALSE, !.openTimers = @ - 1] ELSE m

\* mutant: stop() leaves the monitor marked active
stopKeepsActive(m) ==
    [stopPolling(stopWatcher(m)) EXCEPT
        !.last = "stop", !.before = m.isMonitoring,
        !.noop = (Fields(stopPolling(stopWatcher(m))) = Fields(m))]

\* stop()
stop(m) ==
    [stopPolling(stopWatcher(m)) EXCEPT
        !.isMonitoring = FALSE,
        !.last = "stop", !.before = m.isMonitoring,
        !.noop = (Fields([stopPolling(stopWatcher(m)) EXCEPT !.isMonitoring = FALSE])
                     = Fields(m))]

\* a caller stops the monitor
StopCall ==
    /\ monitor.constructed
    /\ monitor.count < MaxMonitorCalls
    /\ monitor' = stop(CountCall(monitor))
    /\ UNCHANGED <<files, dirExists, now, proc, issued, faults, corrupts, ops, hist,
                   git, plugin, config, tool, collector>>

\* the watcher reports an error: with method "watcher" polling takes over
WatcherError ==
    /\ monitor.constructed /\ monitor.watcher
    /\ monitor.method = "watcher"
    /\ monitor.count < MaxMonitorCalls
    /\ monitor' = [startPolling(stopWatcher(CountCall(monitor))) EXCEPT
                      !.last = "error", !.noop = FALSE]
    /\ UNCHANGED <<files, dirExists, now, proc, issued, faults, corrupts, ops, hist,
                   git, plugin, config, tool, collector>>

\* onChange(callback); a callback is registered once at a time
OnChange(cb) ==
    /\ monitor.constructed
    /\ monitor.count < MaxMonitorCalls
    /\ \A i \in 1..Len(monitor.changeCallbacks) : monitor.changeCallbacks[i] # cb
    /\ monitor' = [CountCall(monitor) EXCEPT
                      !.changeCallbacks = Append(@, cb),
                      !.last = "onChange", !.noop = FALSE]
    /\ UNCHANGED <<files, dirExists, now, proc, issued, faults, corrupts, ops, hist,
                   git, plugin, config, tool, collector>>

\* changeCallbacks.indexOf(callback), counted from 1; 0 when it is not there
IndexOf(s, cb) ==
    IF \E i \in 1..Len(s) : s[i] = cb
    THEN CHOOSE i \in 1..Len(s) : s[i] = cb /\ \A j \in 1..(i - 1) : s[j] # cb
    ELSE 0

\* changeCallbacks.splice(index, 1)
Splice(s, k) == SubSeq(s, 1, k - 1) \o SubSeq(s, k + 1, Len(s))

\* offChange(callback)
OffChange(cb) ==
    /\ monitor.constructed
    /\ monitor.count < MaxMonitorCalls
    /\ LET k == IndexOf(monitor.changeCallbacks, cb)
       IN  monitor' =
             IF k = 0
             THEN [CountCall(monitor) EXCEPT !.last = "offChange", !.noop = TRUE]
             ELSE [CountCall(monitor) EXCEPT
                      !.changeCallbacks = Splice(@, k),
                      !.calls = [p \in Procs |->
                                    IF monitor.calls[p].pc = "callback"
                                    THEN [@[p] EXCEPT !.removed = @ \cup {cb}]
                                    ELSE @[p]],
                      !.last = "offChange", !.noop = FALSE]
    /\ UNCHANGED <<files, dirExists, now, proc, issued, faults, corrupts, ops, hist,
                   git, plugin, config, tool, collector>>

\* the for-of loop of checkBranchChange takes its next element from the
\* array as it is now and calls it, or ends
Dispatch(m, p) ==
    LET c == m.calls[p]
    IN  IF c.i < Len(m.changeCallbacks)
        THEN [m EXCEPT
                 !.calls[p].i = c.i + 1,
                 !.calls[p].cb = m.changeCallbacks[c.i + 1],
                 !.calls[p].pc = "callback",
                 !.calls[p].invoked =
                     Append(@, [cb |-> m.changeCallbacks[c.i + 1],
                                oldBranch |-> c.oldBranch, newBranch |-> c.newBranch])]
        ELSE [m EXCEPT !.calls[p].pc = "done", !.calls[p].cb = "none",
                       !.last = "check", !.noop = FALSE]

\* checkBranchChange(): entry, from the watcher, the polling timer or the
\* test hook
BeginCheck(p) ==
    /\ monitor.constructed /\ CallIdle(p)
    /\ monitor.count < MaxMonitorCalls
    /\ monitor' = [CountCall(monitor) EXCEPT
                      !.calls[p] = [IdleCall EXCEPT !.op = "check", !.pc = "branch"]]
    /\ UNCHANGED <<files, dirExists, now, proc, issued, faults, corrupts, ops, hist,
                   git, plugin, config, tool, collector>>

\* checkBranchChange(): getCurrentBranch() has resolved; on a change the
\* branch is recorded and the first callback is called
CheckBranch(p) ==
    /\ monitor.calls[p].op = "check" /\ monitor.calls[p].pc = "branch"
    /\ LET newBranch == getCurrentBranch
       IN  IF newBranch # NoBranch /\ newBranch # monitor.currentBranch
           THEN monitor' =
                  Dispatch([monitor EXCEPT
                               !.currentBranch = newBranch,
                               !.calls[p].oldBranch = monitor.currentBranch,
                               !.calls[p].newBranch = newBranch,
                               !.calls[p].detected = TRUE,
                               !.calls[p].registered = monitor.changeCallbacks], p)
           ELSE monitor' = [monitor EXCEPT !.calls[p].pc = "done",
                                           !.last = "check", !.noop = TRUE]
    /\ UNCHANGED <<files, dirExists, now, proc, issued, faults, corrupts, ops, hist,
                   git, plugin, config, tool, collector>>

\* checkBranchChange(): the git command of getCurrentBranch() reads HEAD;
\* its result reaches the check in a later turn of the event loop
CheckRead(p) ==
    /\ monitor.calls[p].op = "check" /\ monitor.calls[p].pc = "branch"
    /\ monitor' = [monitor EXCEPT !.calls[p].pc = "compare",
                                  !.calls[p].newBranch = getCurrentBranch,
                                  !.calls[p].readAt = monitor.count]
    /\ UNCHANGED <<files, dirExists, now, proc, issued, faults, corrupts, ops, hist,
                   git, plugin, config, tool, collector>>

\* checkBranchChange(): the awaited getCurrentBranch() has resolved; the
\* comparison with this.currentBranch, the assignment and the first
\* callback follow without interruption
CheckCompare(p) ==
    /\ monitor.calls[p].op = "check" /\ monitor.calls[p].pc = "compare"
    /\ LET newBranch == monitor.calls[p].newBranch
       IN  IF newBranch # NoBranch /\ newBranch # monitor.currentBranch
           THEN monitor' =
                  Dispatch([monitor EXCEPT
                               !.currentBranch = newBranch,
                               !.calls[p].oldBranch = monitor.currentBranch,
                               !.calls[p].detected = TRUE,
                               !.calls[p].registered = monitor.changeCallbacks,
                               !.rounds = @ \cup {[oldBranch |-> monitor.currentBranch,
                                                   newBranch |-> newBranch,
                                                   readAt |-> monitor.calls[p].readAt,
                                                   at |-> monitor.count]}], p)
           ELSE monitor' = [monitor EXCEPT !.calls[p].pc = "done",
                                           !.last = "check", !.noop = TRUE]
    /\ UNCHANGED <<files, dirExists, now, proc, issued, faults, corrupts, ops, hist,
                   git, plugin, config, tool, collector>>

\* a callback of the monitor's client returns
CallbackReturn(p) ==
    /\ monitor.calls[p].op = "check" /\ monitor.calls[p].pc = "callback"
    /\ monitor' = Dispatch(monitor, p)
    /\ UNCHANGED <<files, dirExists, now, proc, issued, faults, corrupts, ops, hist,
                   git, plugin, config, tool, collector>>

\* a callback of the monitor's client throws; the catch block swallows it
CallbackThrow(p) ==
    /\ monitor.calls[p].op = "check" /\ monitor.calls[p].pc = "callback"
    /\ monitor' = Dispatch([monitor EXCEPT !.calls[p].threw = @ \cup {monitor.calls[p].cb}], p)
    /\ UNCHANGED <<files, dirExists, now, proc, issued, faults, corrupts, ops, hist,
                   git, plugin, config, tool, collector>>

\* a monitor over a repository on some branch or none, or outside one
MonitorInit ==
    /\ FreshStore
    /\ plugin = NoPlugin /\ config = NoConfig /\ tool = NoTool /\ collector = NoCollector
    /\ \E gitDir \in BOOLEAN, head \in RepoBranches \cup {NoBranch} :
          git = [gitDir |-> gitDir, head |-> head]
    /\ \E method \in Methods : monitor = NewMonitor(method)

\* the repository changes under the monitor
MonitorCheckout(b) ==
    /\ monitor.count < MaxMonitorCalls
    /\ Checkout(b)
    /\ monitor' = CountCall(monitor)
    /\ UNCHANGED <<files, dirExists, now, proc, issued, faults, corrupts, ops, hist,
                   plugin, config, tool, collector>>

MonitorNext ==
    \/ \E b \in RepoBranches \cup {NoBranch} : MonitorCheckout(b)
    \/ \E p \in Procs : BeginStart(p)
    \/ \E p \in Procs : StartGitDir(p)
    \/ \E p \in Procs : StartBranch(p)
    \/ StopCall
    \/ WatcherError
    \/ \E cb \in Callbacks \ {"ctor"} : OnChange(cb)
    \/ \E cb \in Callbacks : OffChange(cb)
    \/ \E p \in Procs : BeginCheck(p)
    \/ \E p \in Procs : CheckBranch(p)
    \/ \E p \in Procs : CallbackReturn(p)
    \/ \E p \in Procs : CallbackThrow(p)

\* a BranchMonitor and its clients
MonitorSpec == MonitorInit /\ [][MonitorNext]_vars

\* a monitor that start() activated on the branch HEAD is on
ActiveMonitor(method, head) ==
    [NewMonitor(method) EXCEPT
        !.isMonitoring = TRUE,
        !.currentBranch = head,
        !.watcher = (method \in {"watcher", "both"}),
        !.openWatchers = IF method \in {"watcher", "both"} THEN 1 ELSE 0,
        !.pollingInterval = (method \in {"polling", "both"}),
        !.openTimers = IF method \in {"polling", "both"} THEN 1 ELSE 0,
        !.last = "start", !.noop = FALSE]

CheckInit ==
    /\ FreshStore
    /\ plugin = NoPlugin /\ config = NoConfig /\ tool = NoTool /\ collector = NoCollector
    /\ \E head \in RepoBranches, method \in Methods :
          /\ git = [gitDir |-> TRUE, head |-> head]
          /\ monitor = ActiveMonitor(method, head)

CheckNext ==
    \/ \E b \in RepoBranches \cup {NoBranch} : MonitorCheckout(b)
    \/ \E p \in Procs : BeginCheck(p)
    \/ \E p \in Procs : CheckRead(p)
    \/ \E p \in Procs : CheckCompare(p)
    \/ \E p \in Procs : CallbackReturn(p)
    \/ \E p \in Procs : CallbackThrow(p)

\* the checks that the watcher and the polling timer of an active monitor
\* trigger, overlapping, while the repository changes branch
CheckSpec == CheckInit /\ [][CheckNext]_vars

\* ------------------------------------------------------------------ plugin
\* a hook that is not running
IdleHook ==
    [kind |-> "none", pc |-> "idle",
     t |-> 0,                    \* autoSave: now
     currentBranch |-> NoBranch, \* autoSave: currentBranch
     oldBranch |-> NoBranch,     \* branch callback: oldBranch
     newBranch |-> NoBranch]     \* branch callback: newBranch

\* the plugin after its initialisation over a configuration file with the
\* given autoSave flags
NewPlugin(enabled, onBranchChange, onToolExecute) ==
    [loaded |-> TRUE,
     enabled |-> enabled,
     onBranchChange |-> onBranchChange,
     onToolExecute |-> onToolExecute,
     lastAutoSave |-> 0,
     saveCount |-> 0,
     hooks |-> [p \in Procs |-> IdleHook],
     started |-> 0,              \* hooks the host has invoked
     checkouts |-> 0,            \* checkouts made under the plugin
     unloaded |-> FALSE,         \* the unload hook has been invoked
     unloadHead |-> NoBranch,    \* the branch HEAD was on at unload
     saves |-> <<>>]             \* the saves the plugin performed, oldest first

\* what the session holds while the plugin runs
PluginSession == [messages |-> <<"m">>, todos |-> <<>>, files |-> <<>>]

\* collector.collectContext(...) for the branch HEAD is on
PluginContext(branch) ==
    collectContext(branch, PriorSaves + issued + 1, TRUE, TRUE, TRUE, TRUE, PluginSession)

HookIdle(p) == plugin.hooks[p].pc = "idle"

\* slot p runs no hook, no monitor call and no store operation
SlotFree(p) == HookIdle(p) /\ CallIdle(p) /\ Quiescent(p)

\* the hook has returned
EndHook(h) == IdleHook

\* the host invokes a hook: tool.execute.before calls autoSave,
\* session.updated loads the configuration first
BeginHook(p, kind) ==
    /\ plugin.loaded /\ ~plugin.unloaded
    /\ SlotFree(p)
    /\ plugin.started + monitor.count < MaxHooks
    /\ plugin' = [plugin EXCEPT
                     !.started = @ + 1,
                     !.hooks[p] = [IdleHook EXCEPT
                                      !.kind = kind,
                                      !.pc = IF kind = "session" THEN "session" ELSE "autosave"]]
    /\ UNCHANGED <<files, dirExists, now, proc, issued, faults, corrupts, ops, hist,
                   git, monitor, config, tool, collector>>

\* the host invokes unload: branchMonitor.stop(), then autoSave, not awaited
BeginUnload(p) ==
    /\ plugin.loaded /\ ~plugin.unloaded
    /\ SlotFree(p)
    /\ plugin.started + monitor.count < MaxHooks
    /\ monitor' = stop(monitor)
    /\ plugin' = [plugin EXCEPT
                     !.started = @ + 1,
                     !.unloaded = TRUE,
                     !.unloadHead = getCurrentBranch,
                     !.hooks[p] = [IdleHook EXCEPT !.kind = "unload", !.pc = "autosave"]]
    /\ UNCHANGED <<files, dirExists, now, proc, issued, faults, corrupts, ops, hist,
                   git, config, tool, collector>>

\* session.updated: the configuration is loaded; autoSave is called when
\* auto-save is enabled and the periodic interval has passed
SessionLoaded(p) ==
    /\ plugin.hooks[p].pc = "session"
    /\ plugin' = [plugin EXCEPT
                     !.hooks[p] =
                        IF plugin.enabled /\ now - plugin.lastAutoSave > PeriodicMs
                        THEN [@ EXCEPT !.pc = "autosave"]
                        ELSE EndHook(@)]
    /\ UNCHANGED <<files, dirExists, now, proc, issued, faults, corrupts, ops, hist,
                   git, monitor, config, tool, collector>>

\* autoSave: the configuration is loaded; when auto-save is enabled and the
\* throttle interval has passed, the current branch is asked for
AutoSaveLoaded(p) ==
    /\ plugin.hooks[p].pc = "autosave"
    /\ plugin' = [plugin EXCEPT
                     !.hooks[p] =
                        IF plugin.enabled /\ now - plugin.lastAutoSave > ThrottleMs
                        THEN [@ EXCEPT !.pc = "branch", !.t = now]
                        ELSE EndHook(@)]
    /\ UNCHANGED <<files, dirExists, now, proc, issued, faults, corrupts, ops, hist,
                   git, monitor, config, tool, collector>>

\* autoSave: getCurrentBranch() has resolved; collectContext is called
AutoSaveBranch(p) ==
    /\ plugin.hooks[p].pc = "branch"
    /\ plugin' = [plugin EXCEPT
                     !.hooks[p] =
                        IF getCurrentBranch # NoBranch
                        THEN [@ EXCEPT !.pc = "collect", !.currentBranch = getCurrentBranch]
                        ELSE EndHook(@)]
    /\ UNCHANGED <<files, dirExists, now, proc, issued, faults, corrupts, ops, hist,
                   git, monitor, config, tool, collector>>

\* autoSave: collectContext has resolved, or thrown without a branch;
\* saveContext is called
AutoSaveCollect(p) ==
    /\ plugin.hooks[p].pc = "collect"
    /\ IF getCurrentBranch = NoBranch
       THEN /\ plugin' = [plugin EXCEPT !.hooks[p] = EndHook(@)]
            /\ UNCHANGED <<files, dirExists, now, proc, issued, faults, corrupts, hist>>
       ELSE /\ CallSaveContext(p, plugin.hooks[p].currentBranch,
                               PluginContext(getCurrentBranch), TRUE)
            /\ plugin' = [plugin EXCEPT !.hooks[p].pc = "save"]
    /\ UNCHANGED <<ops, git, monitor, config, tool, collector>>

\* a save the plugin performed
SaveRecord(p, at) ==
    [kind |-> plugin.hooks[p].kind, at |-> at, branch |-> proc[p].branch]

\* autoSave: saveContext has returned, lastAutoSave and saveCount are
\* updated; or it has thrown, and the catch block shows a toast
AutoSaveReturn(p) ==
    /\ plugin.hooks[p].pc = "save"
    /\ proc[p].op = "save" /\ proc[p].pc = "done"
    /\ plugin' =
          IF proc[p].result.status = "ok"
          THEN [plugin EXCEPT
                   !.lastAutoSave = plugin.hooks[p].t,
                   !.saveCount = @ + 1,
                   !.saves = Append(@, SaveRecord(p, plugin.hooks[p].t)),
                   !.hooks[p] = EndHook(@)]
          ELSE [plugin EXCEPT !.hooks[p] = EndHook(@)]
    /\ UNCHANGED <<files, dirExists, now, proc, issued, faults, corrupts, ops, hist,
                   git, monitor, config, tool, collector>>

\* the monitor's check has called the plugin's callback and the
\* configuration is loaded: the old branch is saved when there is one and
\* onBranchChange is set, otherwise the new branch's context is looked up
BranchLoaded(p) ==
    /\ plugin.loaded
    /\ monitor.calls[p].op = "check" /\ monitor.calls[p].pc = "callback"
    /\ monitor.calls[p].cb = "ctor"
    /\ HookIdle(p)
    /\ LET h == [IdleHook EXCEPT
                    !.kind = "branch",
                    !.oldBranch = monitor.calls[p].oldBranch,
                    !.newBranch = monitor.calls[p].newBranch]
       IN  IF h.oldBranch # NoBranch /\ plugin.onBranchChange
           THEN /\ plugin' = [plugin EXCEPT !.hooks[p] = [h EXCEPT !.pc = "bc-collect"]]
                /\ UNCHANGED <<files, dirExists, now, proc, issued, faults, corrupts, hist>>
           ELSE /\ plugin' = [plugin EXCEPT !.hooks[p] = [h EXCEPT !.pc = "bc-load"]]
                /\ CallLoadContext(p, h.newBranch)
    /\ UNCHANGED <<ops, git, monitor, config, tool, collector>>

\* branch callback: collectContext has resolved, or thrown without a
\* branch; saveContext(oldBranch, context) is called
BranchCollect(p) ==
    /\ plugin.hooks[p].pc = "bc-collect"
    /\ IF getCurrentBranch = NoBranch
       THEN /\ plugin' = [plugin EXCEPT !.hooks[p] = EndHook(@)]
            /\ monitor' = Dispatch([monitor EXCEPT !.calls[p].threw = @ \cup {"ctor"}], p)
            /\ UNCHANGED <<files, dirExists, now, proc, issued, faults, corrupts, hist>>
       ELSE /\ CallSaveContext(p, plugin.hooks[p].oldBranch,
                               PluginContext(getCurrentBranch), TRUE)
            /\ plugin' = [plugin EXCEPT !.hooks[p].pc = "bc-save"]
            /\ UNCHANGED monitor
    /\ UNCHANGED <<ops, git, config, tool, collector>>

\* branch callback: saveContext has returned and loadContext(newBranch) is
\* called; or it has thrown and the callback rejects
BranchSaved(p) ==
    /\ plugin.hooks[p].pc = "bc-save"
    /\ proc[p].op = "save" /\ proc[p].pc = "done"
    /\ IF proc[p].result.status = "ok"
       THEN /\ plugin' = [plugin EXCEPT
                             !.saves = Append(@, SaveRecord(p, now)),
                             !.hooks[p].pc = "bc-load"]
            /\ CallLoadContext(p, plugin.hooks[p].newBranch)
            /\ UNCHANGED monitor
       ELSE /\ plugin' = [plugin EXCEPT !.hooks[p] = EndHook(@)]
            /\ monitor' = Dispatch([monitor EXCEPT !.calls[p].threw = @ \cup {"ctor"}], p)
            /\ UNCHANGED <<files, dirExists, now, proc, issued, faults, corrupts, hist>>
    /\ UNCHANGED <<ops, git, config, tool, collector>>

\* branch callback: loadContext has returned and the toast is shown; the
\* monitor's loop goes on
BranchReturn(p) ==
    /\ plugin.hooks[p].pc = "bc-load"
    /\ proc[p].op = "load" /\ proc[p].pc = "done"
    /\ plugin' = [plugin EXCEPT !.hooks[p] = EndHook(@)]
    /\ monitor' = Dispatch([monitor EXCEPT
                               !.calls[p].threw =
                                   IF proc[p].result.status # "ok" THEN @ \cup {"ctor"} ELSE @],
                           p)
    /\ UNCHANGED <<files, dirExists, now, proc, issued, faults, corrupts, ops, hist,
                   git, config, tool, collector>>

\* the monitor after the plugin has awaited branchMonitor.start() with
\* HEAD on the given branch
StartedMonitor(head) ==
    IF head = NoBranch
    THEN NewMonitor("both")
    ELSE [NewMonitor("both") EXCEPT
             !.isMonitoring = TRUE, !.watcher = TRUE, !.pollingInterval = TRUE,
             !.currentBranch = head, !.openWatchers = 1, !.openTimers = 1,
             !.last = "start", !.noop = FALSE]

\* the plugin is loaded in a repository, over a store without a directory
\* where no I/O call fails
PluginInit ==
    /\ files = <<>>
    /\ dirExists = FALSE
    /\ now = Epoch
    /\ proc = [p \in Procs |-> IdleProc]
    /\ issued = 0
    /\ faults = MaxFaults
    /\ corrupts = 0
    /\ ops = 0
    /\ hist = [f \in CanonicalFiles |-> <<>>]
    /\ config = NoConfig /\ tool = NoTool /\ collector = NoCollector
    /\ \E head \in Branches :
          /\ git = [gitDir |-> TRUE, head |-> head]
          /\ monitor = StartedMonitor(head)
    /\ \E enabled, onBranchChange, onToolExecute \in BOOLEAN :
          plugin = NewPlugin(enabled, onBranchChange, onToolExecute)

\* somebody checks out another branch while the plugin runs
PluginCheckout(b) ==
    /\ plugin.checkouts < MaxCheckouts
    /\ b # git.head
    /\ Checkout(b)
    /\ plugin' = [plugin EXCEPT !.checkouts = @ + 1]
    /\ UNCHANGED <<files, dirExists, now, proc, issued, faults, corrupts, ops, hist,
                   monitor, config, tool, collector>>

\* time passes before a hook reads the clock
PluginTick ==
    /\ now < Epoch + MaxPluginClock
    /\ \E p \in Procs : plugin.hooks[p].pc \in {"session", "autosave"}
    /\ Tick

\* the watcher or the polling timer of the monitor fires
PluginCheck(p) ==
    /\ monitor.openWatchers + monitor.openTimers > 0
    /\ plugin.started + monitor.count < MaxHooks
    /\ HookIdle(p) /\ Quiescent(p)
    /\ BeginCheck(p)

PluginNext ==
    \/ PluginTick
    \/ \E b \in RepoBranches \cup {NoBranch} : PluginCheckout(b)
    \/ \E p \in Procs, kind \in {"tool", "session"} : BeginHook(p, kind)
    \/ \E p \in Procs : BeginUnload(p)
    \/ \E p \in Procs : SessionLoaded(p)
    \/ \E p \in Procs : AutoSaveLoaded(p)
    \/ \E p \in Procs : AutoSaveBranch(p)
    \/ \E p \in Procs : AutoSaveCollect(p)
    \/ \E p \in Procs : AutoSaveReturn(p)
    \/ \E p \in Procs : PluginCheck(p)
    \/ \E p \in Procs : CheckBranch(p)
    \/ \E p \in Procs : BranchLoaded(p)
    \/ \E p \in Procs : BranchCollect(p)
    \/ \E p \in Procs : BranchSaved(p)
    \/ \E p \in Procs : BranchReturn(p)
    \/ \E p \in Procs : EnsureStorageDir(p) \/ SaveExists(p) \/ BackupExists(p)
    \/ \E p \in Procs : CopyOpen(p) \/ CopyFinish(p) \/ CleanReaddir(p)
    \/ \E p \in Procs : WriteOpen(p) \/ WriteFinish(p) \/ Rename(p)
    \/ \E p \in Procs : LoadExists(p) \/ LoadRead(p)

\* the plugin's hooks and its branch monitor over the store
PluginSpec == PluginInit /\ [][PluginNext]_vars

\* what slot p does once the promise it awaits settles
HookStep(p) ==
    \/ SessionLoaded(p) \/ AutoSaveLoaded(p) \/ AutoSaveBranch(p)
    \/ AutoSaveCollect(p) \/ AutoSaveReturn(p)
    \/ CheckBranch(p)
    \/ BranchLoaded(p) \/ BranchCollect(p) \/ BranchSaved(p) \/ BranchReturn(p)
    \/ EnsureStorageDir(p) \/ SaveExists(p) \/ BackupExists(p)
    \/ CopyOpen(p) \/ CopyFinish(p) \/ CleanReaddir(p)
    \/ WriteOpen(p) \/ WriteFinish(p) \/ Rename(p)
    \/ LoadExists(p) \/ LoadRead(p)

\* the plugin where every awaited promise settles and its continuation runs
PluginFairSpec == PluginSpec /\ \A p \in Procs : WF_vars(HookStep(p))

\* ---------------------------------------------------------------- save tool
\* the save tool with no request running
NewTool ==
    [constructed |-> TRUE,
     pc |-> "idle",
     currentBranch |-> NoBranch, \* execute: currentBranch
     context |-> NoContext,      \* execute: branchContext
     started |-> 0,              \* requests made so far
     checkouts |-> 0,            \* checkouts made between them
     log |-> {}]                 \* the requests that returned: their case and result

\* "Not on a git branch, context not saved"
NotOnBranch == [text |-> "not-on-branch"]

\* "Saved context for branch ..." with the counts of the document
SavedResult(branch, context) ==
    [text |-> "saved", branch |-> branch,
     messageCount |-> context.messageCount,
     todoCount |-> context.todoCount,
     fileCount |-> context.fileCount]

\* mutant: the catch block reports the failure as a missing branch
FailedAsNotOnBranch(message) == NotOnBranch

\* "Failed to save context: ..." with the message of the error
FailedResult(message) == [text |-> "failed", message |-> message]

\* the save that slot p ran copied the canonical file to a backup
BackupMade(p) == proc[p].backupFile # <<>> /\ ~("copyFile" \in proc[p].errs)

\* the tool returns a result to its caller
ToolResult(case, result) ==
    [tool EXCEPT !.pc = "idle", !.currentBranch = NoBranch, !.context = NoContext,
                 !.log = @ \cup {[case |-> case, result |-> result]}]

\* the save tool is called: initializeContext()
ToolSave(p) ==
    /\ tool.constructed /\ tool.pc = "idle"
    /\ Quiescent(p)
    /\ tool.started < MaxToolSaves
    /\ tool' = [tool EXCEPT !.pc = "branch", !.started = @ + 1]
    /\ UNCHANGED <<files, dirExists, now, proc, issued, faults, corrupts, ops, hist,
                   git, plugin, monitor, config, collector>>

\* execute: getCurrentBranch() has resolved; without a branch the tool
\* returns, otherwise collectContext is called
ToolBranch(p) ==
    /\ tool.pc = "branch"
    /\ tool' = IF getCurrentBranch = NoBranch
               THEN ToolResult("nothing", NotOnBranch)
               ELSE [tool EXCEPT !.pc = "collect", !.currentBranch = getCurrentBranch]
    /\ UNCHANGED <<files, dirExists, now, proc, issued, faults, corrupts, ops, hist,
                   git, plugin, monitor, config, collector>>

\* execute: collectContext has resolved, or thrown without a branch;
\* saveContext is called
ToolCollect(p) ==
    /\ tool.pc = "collect"
    /\ IF getCurrentBranch = NoBranch
       THEN /\ tool' = ToolResult("failed", FailedResult({"collectContext"}))
            /\ UNCHANGED <<files, dirExists, now, proc, issued, faults, corrupts, hist>>
       ELSE LET context == collectContext(getCurrentBranch, PriorSaves + issued + 1,
                                          TRUE, TRUE, TRUE, FALSE, PluginSession)
            IN  /\ CallSaveContext(p, tool.currentBranch, context, TRUE)
                /\ tool' = [tool EXCEPT !.pc = "save", !.context = context]
    /\ UNCHANGED <<ops, git, plugin, monitor, config, collector>>

\* execute: saveContext has returned and the tool reports the save, or it
\* has thrown and the catch block reports the failure
ToolReturn(p) ==
    /\ tool.pc = "save"
    /\ proc[p].op = "save" /\ proc[p].pc = "done"
    /\ tool' = IF proc[p].result.status = "ok"
               THEN ToolResult(IF BackupMade(p) THEN "saved" ELSE "saved-no-backup",
                               SavedResult(tool.currentBranch, tool.context))
               ELSE ToolResult("failed", FailedResult(proc[p].errs))
    /\ UNCHANGED <<files, dirExists, now, proc, issued, faults, corrupts, ops, hist,
                   git, plugin, monitor, config, collector>>

\* the save tool in a repository, over a store without a directory
ToolInit ==
    /\ FreshStore
    /\ plugin = NoPlugin /\ monitor = NoMonitor /\ config = NoConfig
    /\ \E head \in RepoBranches \cup {NoBranch} : git = [gitDir |-> TRUE, head |-> head]
    /\ tool = NewTool /\ collector = NoCollector

\* somebody checks out another branch between or during requests
ToolCheckout(b) ==
    /\ tool.checkouts < MaxToolCheckouts
    /\ Checkout(b)
    /\ tool' = [tool EXCEPT !.checkouts = @ + 1]
    /\ UNCHANGED <<files, dirExists, now, proc, issued, faults, corrupts, ops, hist,
                   plugin, monitor, config, collector>>

ToolNext ==
    \/ now < Epoch + MaxToolClock /\ Tick
    \/ \E b \in RepoBranches \cup {NoBranch} : ToolCheckout(b)
    \/ ToolSave(1) \/ ToolBranch(1) \/ ToolCollect(1) \/ ToolReturn(1)
    \/ EnsureStorageDir(1) \/ SaveExists(1) \/ BackupExists(1)
    \/ CopyOpen(1) \/ CopyFinish(1) \/ CleanReaddir(1)
    \/ WriteOpen(1) \/ WriteFinish(1) \/ Rename(1) \/ Cleanup(1)

\* requests to the save tool, one at a time, with I/O failures
ToolSpec == ToolInit /\ [][ToolNext]_vars

\* ------------------------------------------------------------ ConfigManager
\* JSON values: strings, null, arrays, objects; an object of the defaults
\* that a returned object refers to is written as a reference to its path
Str(s) == [t |-> "str", v |-> <<s>>]
Null == [t |-> "null", v |-> <<>>]
Obj(fields) == [t |-> "obj", v |-> fields]
Ref(path) == [t |-> "ref", v |-> path]

\* the property keys of the elements of an array
ArrayKeys == <<"0", "1", "2">>

\* an array with the given elements
Arr(items) ==
    [t |-> "arr",
     v |-> [k \in { ArrayKeys[i] : i \in 1..Len(items) } |->
              items[CHOOSE i \in 1..Len(items) : ArrayKeys[i] = k]]]
\* the keys of an object, the index keys of an array
KeysOf(n) == IF n.t \in {"obj", "arr"} THEN DOMAIN n.v ELSE {}

\* the module's DEFAULT_CONFIG, two of its sections and a scalar
DEFAULT_CONFIG ==
    Obj([k \in {"autoSave", "contextLoading", "context"} |->
           CASE k = "autoSave" ->
                  Obj([j \in {"enabled", "throttleMs"} |->
                         IF j = "enabled" THEN Str("true") ELSE Str("5000")])
             [] k = "contextLoading" -> Str("auto")
             [] k = "context" ->
                  Obj([j \in {"defaultInclude", "maxMessages"} |->
                         IF j = "defaultInclude"
                         THEN Arr(<<Str("messages"), Str("todos")>>)
                         ELSE Str("50")])])

\* the value at a path of a plain tree
RECURSIVE GetAt(_, _)
GetAt(tree, path) ==
    IF Len(path) = 0 THEN tree ELSE GetAt(tree.v[Head(path)], Tail(path))

\* the path leads to a value of the plain tree
RECURSIVE HasAt(_, _)
HasAt(tree, path) ==
    IF Len(path) = 0 THEN TRUE
    ELSE IF Head(path) \in KeysOf(tree)
         THEN HasAt(tree.v[Head(path)], Tail(path))
         ELSE FALSE

\* the plain tree with the value at an existing path replaced
RECURSIVE SetAt(_, _, _)
SetAt(tree, path, val) ==
    IF Len(path) = 0 THEN val
    ELSE [tree EXCEPT !.v[Head(path)] = SetAt(@, Tail(path), val)]

\* { ...object }: a new object whose fields hold the same nested objects
ShallowCopy(defaults, path) ==
    LET target == GetAt(defaults, path)
    IN  Obj([k \in KeysOf(target) |->
               IF target.v[k].t \in {"obj", "arr"}
               THEN Ref(Append(path, k))
               ELSE target.v[k]])

\* mutant: arrays count as objects to merge
IsObjectOrArray(n) == n.t \in {"obj", "arr"}

\* typeof value === 'object' && value !== null && !Array.isArray(value)
IsObject(n) == n.t = "obj"

\* deepMerge(target, source) for the object of the defaults at the path
RECURSIVE deepMerge(_, _, _)
deepMerge(defaults, path, source) ==
    LET target == GetAt(defaults, path)
        result == ShallowCopy(defaults, path)
    IN  Obj([key \in KeysOf(target) \cup KeysOf(source) |->
               IF key \in KeysOf(source)
               THEN IF /\ IsObject(source.v[key])
                       /\ key \in KeysOf(target)
                       /\ IsObject(target.v[key])
                    THEN deepMerge(defaults, Append(path, key), source.v[key])
                    ELSE source.v[key]
               ELSE result.v[key]])

\* the value a caller reads from a returned object
RECURSIVE Resolve(_, _)
Resolve(defaults, node) ==
    CASE node.t = "ref" -> GetAt(defaults, node.v)
      [] node.t = "obj" -> Obj([k \in DOMAIN node.v |-> Resolve(defaults, node.v[k])])
      [] OTHER -> node

\* the configuration file: missing, unreadable, not JSON, or a JSON object
NoFile == [state |-> "missing", value |-> Null]
Unreadable == [state |-> "unreadable", value |-> Null]
Unparsable == [state |-> "unparsable", value |-> Null]
Json(value) == [state |-> "json", value |-> value]

\* load(): the merge of defaults and user file, or a copy of the defaults
load(defaults, file) ==
    IF file.state = "json"
    THEN deepMerge(defaults, <<>>, file.value)
    ELSE ShallowCopy(defaults, <<>>)

\* getDefault(): JSON.parse(JSON.stringify(DEFAULT_CONFIG))
getDefault(defaults) == defaults

\* the values a user file holds below its sections
UserLeaves == {Str("user"), Null, Arr(<<Str("user")>>)}

\* the sections a user file holds
UserSections ==
    { Obj(f) : f \in UNION { [ks -> UserLeaves \cup {Obj([d \in {"deep"} |-> Str("user")])}] :
                             ks \in SUBSET {"enabled", "defaultInclude"} } }

\* the user files: JSON objects over the keys of the defaults
UserFiles ==
    { Json(Obj(f)) : f \in UNION { [ks -> UserLeaves \cup UserSections] :
                                   ks \in SUBSET {"autoSave", "contextLoading", "context"} } }

\* a ConfigManager over the given file; the module's defaults are intact
NewConfig(file) ==
    [constructed |-> TRUE,
     defaults |-> DEFAULT_CONFIG,  \* the DEFAULT_CONFIG object as it is now
     file |-> file,
     handed |-> <<>>,              \* the objects returned and still held by callers
     calls |-> 0,
     last |-> [kind |-> "none", value |-> Null, defaults |-> Null, held |-> FALSE]]

\* a call has returned the object: what it reads as, and the defaults then
Returned(kind, node) ==
    [config EXCEPT
        !.calls = @ + 1,
        !.handed = IF Len(@) < MaxHeld THEN Append(@, node) ELSE @,
        !.last = [kind |-> kind, value |-> Resolve(config.defaults, node),
                  defaults |-> config.defaults, held |-> Len(config.handed) < MaxHeld]]

\* configManager.load() is called and returns
ConfigLoad ==
    /\ config.constructed
    /\ config.calls < MaxConfigCalls
    /\ config' = Returned("load", load(config.defaults, config.file))
    /\ UNCHANGED <<files, dirExists, now, proc, issued, faults, corrupts, ops, hist,
                   git, plugin, monitor, tool, collector>>

\* configManager.getDefault() is called and returns
ConfigGetDefault ==
    /\ config.constructed
    /\ config.calls < MaxConfigCalls
    /\ config' = Returned("getDefault", getDefault(config.defaults))
    /\ UNCHANGED <<files, dirExists, now, proc, issued, faults, corrupts, ops, hist,
                   git, plugin, monitor, tool, collector>>

\* the paths of a configuration a caller assigns to
FieldPaths ==
    { <<"contextLoading">>, <<"autoSave", "enabled">>, <<"context", "maxMessages">>,
      <<"context", "defaultInclude", "0">> }

\* the returned object and the defaults after object.path = val: an
\* assignment inside a nested object the defaults hold as well changes both
RECURSIVE Assign(_, _, _, _)
Assign(defaults, node, path, val) ==
    CASE Len(path) = 0 ->
           [defaults |-> defaults, node |-> val]
      [] Len(path) > 0 /\ node.t = "ref" ->
           [defaults |-> SetAt(defaults, node.v \o path, val), node |-> node]
      [] OTHER ->
           LET below == Assign(defaults, node.v[Head(path)], Tail(path), val)
           IN  [defaults |-> below.defaults,
                node |-> [node EXCEPT !.v[Head(path)] = below.node]]

\* the path leads to a field of the returned object
ReadableAt(defaults, node, path) == HasAt(Resolve(defaults, node), path)

\* a caller assigns to a field of an object it was handed
Mutate(i, path) ==
    /\ config.constructed
    /\ config.calls < MaxConfigCalls
    /\ i \in DOMAIN config.handed
    /\ ReadableAt(config.defaults, config.handed[i], path)
    /\ LET after == Assign(config.defaults, config.handed[i], path, Str("mutated"))
       IN  config' = [config EXCEPT
                         !.calls = @ + 1,
                         !.defaults = after.defaults,
                         !.handed[i] = after.node,
                         !.last = [kind |-> "assign", value |-> Null, defaults |-> Null,
                                   held |-> FALSE]]
    /\ UNCHANGED <<files, dirExists, now, proc, issued, faults, corrupts, ops, hist,
                   git, plugin, monitor, tool, collector>>

\* a ConfigManager on its own, over any of the user files
MergeInit ==
    /\ FreshStore
    /\ git = NoGit /\ plugin = NoPlugin /\ monitor = NoMonitor /\ tool = NoTool /\ collector = NoCollector
    /\ \E file \in UserFiles \cup {NoFile, Unreadable, Unparsable} : config = NewConfig(file)

MergeNext == ConfigLoad \/ ConfigGetDefault

\* load() and getDefault() over every user file
MergeSpec == MergeInit /\ [][MergeNext]_vars

\* the user files of callers that assign to what they are handed
FewFiles ==
    { NoFile, Unparsable,
      Json(Obj([k \in {"contextLoading"} |-> Str("user")])),
      Json(Obj([k \in {"context"} |-> Obj([j \in {"maxMessages"} |-> Str("user")])])) }

ConfigInit ==
    /\ FreshStore
    /\ git = NoGit /\ plugin = NoPlugin /\ monitor = NoMonitor /\ tool = NoTool /\ collector = NoCollector
    /\ \E file \in FewFiles : config = NewConfig(file)

ConfigNext ==
    \/ ConfigLoad
    \/ ConfigGetDefault
    \/ \E i \in 1..MaxHeld, path \in FieldPaths : Mutate(i, path)

\* callers that load, ask for the defaults and assign to the objects they get
ConfigSpec == ConfigInit /\ [][ConfigNext]_vars

\* ---------------------------------------------------------- ContextCollector
\* a collector constructed over a configuration with the given limits
NewCollector(limitMessages, limitTodos, client) ==
    [constructed |-> TRUE,
     maxMessages |-> limitMessages,   \* config.context.maxMessages
     maxTodos |-> limitTodos,         \* config.context.maxTodos
     client |-> client,
     calls |-> 0,
     session |-> [messages |-> <<>>, todos |-> <<>>, files |-> <<>>],
     context |-> NoContext]           \* what the last collectContext returned

\* collectContext of a collector with configured limits
collectContextOf(c, currentBranch, n, includeMessages, includeTodos, includeFiles, session) ==
    LET messages == IF includeMessages
                    THEN Payload(collectMessagesUpTo(c.maxMessages, c.client, session))
                    ELSE Absent
        todos == IF includeTodos
                 THEN Payload(collectTodosUpTo(c.maxTodos, c.client, session))
                 ELSE Absent
        fs == IF includeFiles THEN Payload(session.files) ELSE Absent
    IN  FullContext(currentBranch, n, messages, todos, fs,
                    Count(messages), Count(todos), Count(fs))

\* collectContext is called on a branch and returns the document
Collect(branch) ==
    /\ collector.constructed
    /\ collector.calls < MaxCollects
    /\ \E includeMessages, includeTodos, includeFiles \in BOOLEAN, session \in Sessions :
          collector' = [collector EXCEPT
                           !.calls = @ + 1,
                           !.session = session,
                           !.context = collectContextOf(collector, branch, collector.calls + 1,
                                                        includeMessages, includeTodos,
                                                        includeFiles, session)]
    /\ UNCHANGED <<files, dirExists, now, proc, issued, faults, corrupts, ops, hist,
                   git, plugin, monitor, config, tool>>

\* a collector over any configured limits, zero included
LimitInit ==
    /\ FreshStore
    /\ git = NoGit /\ plugin = NoPlugin /\ monitor = NoMonitor /\ config = NoConfig
    /\ tool = NoTool
    /\ \E limitMessages, limitTodos \in 0..MaxLimit, client \in BOOLEAN :
          collector = NewCollector(limitMessages, limitTodos, client)

LimitNext == \E b \in Branches : Collect(b)

\* documents collected under every configured limit
LimitSpec == LimitInit /\ [][LimitNext]_vars

\* ------------------------------------------------ claims on a single caller
Canon(p) == getBranchFile(proc[p].branch)

\* the backups of the key of p's operation that p can read and parse
GoodBackups(p) ==
    { f \in BackupsOf(proc[p].branch) : Parse(files[f]).ok /\ f \notin proc[p].unread }

Newest(S) == CHOOSE f \in S : \A g \in S : BackupTimestamp(f) >= BackupTimestamp(g)

\* the canonical file of p's load exists but cannot be read or parsed
CanonicalBad(p) ==
    /\ Exists(Canon(p))
    /\ \/ ~Parse(files[Canon(p)]).ok
       \/ Canon(p) \in proc[p].unread

\* p's save crashed at some step and nothing ran since it began
SaveCrashed(p) == proc[p].op = "save" /\ proc[p].pc = "crashed" /\ proc[p].alone

\* after p's crashed save the canonical file is as it was before the save
\* (absent, or the same content) or holds the complete new document
CanonicalWhole(p) ==
    LET f == Canon(p)
        pre == proc[p].pre
    IN  /\ Exists(f) =>
             \/ f \in DOMAIN pre /\ files[f] = pre[f]
             \/ files[f] = Stringify(proc[p].ctx)
        /\ ~Exists(f) => f \notin DOMAIN pre

\* c is a prefix of d
IsPrefix(c, d) == Len(c) <= Len(d) /\ SubSeq(d, 1, Len(c)) = c

\* C3 as claimed: after a crash at any step of a save the canonical file is
\* whole, and every other file is as before, except for an orphaned temp
\* file of this save and for backups of the key: a complete copy of the
\* pre-save canonical file that was added, or ones not pruned yet.
C3_Original ==
    \A p \in Procs :
        SaveCrashed(p) =>
            /\ CanonicalWhole(p)
            /\ \A g \in (DOMAIN files \cup DOMAIN proc[p].pre) \ {Canon(p)} :
                 \/ g \in DOMAIN files /\ g \in DOMAIN proc[p].pre
                       /\ files[g] = proc[p].pre[g]
                 \/ g = proc[p].tempFile /\ g \notin DOMAIN proc[p].pre
                 \/ g = proc[p].backupFile /\ g \in DOMAIN files
                       /\ files[g] = proc[p].pre[Canon(p)]
                 \/ IsBackupOf(g, proc[p].branch) /\ g \notin DOMAIN files

\* C3 amended: as claimed, but the backup this save was writing may also be
\* left partially written.
C3_CrashLeavesCanonicalWhole ==
    \A p \in Procs :
        SaveCrashed(p) =>
            /\ CanonicalWhole(p)
            /\ \A g \in (DOMAIN files \cup DOMAIN proc[p].pre) \ {Canon(p)} :
                 \/ g \in DOMAIN files /\ g \in DOMAIN proc[p].pre
                       /\ files[g] = proc[p].pre[g]
                 \/ g = proc[p].tempFile /\ g \notin DOMAIN proc[p].pre
                 \/ g = proc[p].backupFile /\ g \in DOMAIN files
                       /\ IsPrefix(files[g], proc[p].pre[Canon(p)])
                 \/ IsBackupOf(g, proc[p].branch) /\ g \notin DOMAIN files

\* C3 witness: a save of an existing key crashed while its temp file was
\* half written: the canonical file is as before, the temp file is orphaned
C3_Witness ==
    \E p \in Procs :
        /\ SaveCrashed(p)
        /\ Canon(p) \in DOMAIN proc[p].pre
        /\ Exists(Canon(p)) /\ files[Canon(p)] = proc[p].pre[Canon(p)]
        /\ Exists(proc[p].tempFile)
        /\ files[proc[p].tempFile] # Stringify(proc[p].ctx)
        /\ BackupsOf(proc[p].branch) # {}

\* C4: a load right after a successful save of the same key (no operation,
\* corruption or I/O failure in between or during the load) returns a
\* document equal to the one saved.
C4_RoundTrip ==
    \A p \in Procs :
        (/\ LoadDone(p)
         /\ proc[p].prev.op = "save" /\ proc[p].prev.status = "ok"
         /\ getBranchFile(proc[p].prev.branch) = Canon(p)
         /\ proc[p].errs = {} /\ proc[p].unread = {})
        => proc[p].result = [status |-> "ok", val |-> proc[p].prev.ctx]

\* C4 witness: such a load has returned the second document saved
C4_Witness ==
    \E p \in Procs :
        /\ LoadDone(p)
        /\ proc[p].prev.op = "save" /\ proc[p].prev.status = "ok"
        /\ proc[p].errs = {}
        /\ proc[p].result.status = "ok" /\ proc[p].result.val.version = "2.0.0"

\* C5: a save of d2 that runs without any failure while the canonical file
\* holds d1 has a backup holding d1 in place before it replaces the
\* canonical path, and afterwards the canonical file holds d2 and a backup
\* holds d1; after exactly two saves to a fresh key exactly one backup
\* exists and it holds the first document.
C5_BackupBeforeOverwrite ==
    /\ \A p \in Procs :
          (/\ proc[p].op = "save" /\ proc[p].alone /\ proc[p].errs = {}
           /\ Canon(p) \in DOMAIN proc[p].pre)
          => /\ proc[p].pc \in {"write1", "write2", "rename"} =>
                  /\ Exists(Canon(p)) /\ files[Canon(p)] = proc[p].pre[Canon(p)]
                  /\ \E bk \in BackupsOf(proc[p].branch) :
                        files[bk] = proc[p].pre[Canon(p)]
             /\ proc[p].pc = "done" =>
                  /\ proc[p].result.status = "ok"
                  /\ files[Canon(p)] = Stringify(proc[p].ctx)
                  /\ \E bk \in BackupsOf(proc[p].branch) :
                        files[bk] = proc[p].pre[Canon(p)]
    /\ \A b \in Branches :
          (/\ Len(hist[getBranchFile(b)]) = 2
           /\ faults = 0 /\ corrupts = 0
           /\ \A p \in Procs : Quiescent(p))
          => /\ Cardinality(BackupsOf(b)) = 1
             /\ \A bk \in BackupsOf(b) :
                   files[bk] = Stringify(hist[getBranchFile(b)][1])

\* C5 witness: the second save to a fresh key has returned
C5_Witness ==
    \E p \in Procs :
        /\ SaveDone(p) /\ proc[p].errs = {}
        /\ Canon(p) \in DOMAIN proc[p].pre
        /\ Len(hist[Canon(p)]) = 2
        /\ faults = 0 /\ corrupts = 0
        /\ Cardinality(BackupsOf(proc[p].branch)) = 1

\* C6: after more than KeepBackups sequential saves of one key by a single
\* caller, none of them disturbed, exactly KeepBackups backups exist and
\* they hold the last KeepBackups overwritten documents.
C6_BackupBound ==
    \A b \in Branches :
        LET h == hist[getBranchFile(b)]
        IN  (/\ Len(h) > KeepBackups
             /\ faults = 0 /\ corrupts = 0
             /\ \A p \in Procs : Quiescent(p))
            => /\ Cardinality(BackupsOf(b)) = KeepBackups
               /\ { files[bk] : bk \in BackupsOf(b) }
                     = { Stringify(h[i]) : i \in (Len(h) - KeepBackups)..(Len(h) - 1) }

\* C7: when the canonical file cannot be read or parsed, the directory can
\* be listed and some backup of the key parses, load returns the content of
\* the parsable backup with the greatest timestamp.
C7_RecoversNewestParsable ==
    \A p \in Procs :
        (/\ LoadDone(p) /\ CanonicalBad(p)
         /\ "readdir" \notin proc[p].errs
         /\ GoodBackups(p) # {})
        => proc[p].result =
              [status |-> "ok", val |-> Parse(files[Newest(GoodBackups(p))]).val]

\* C7 witness: the load skipped a newer backup that does not parse
C7_Witness ==
    \E p \in Procs :
        /\ LoadDone(p) /\ CanonicalBad(p)
        /\ GoodBackups(p) # {}
        /\ proc[p].result.status = "ok"
        /\ \E bk \in BackupsOf(proc[p].branch) :
              /\ ~Parse(files[bk]).ok
              /\ BackupTimestamp(bk) > BackupTimestamp(Newest(GoodBackups(p)))

\* C8: when the canonical file cannot be read or parsed and no backup of
\* the key parses (none exists, none parses, or the directory cannot be
\* listed), load returns absent and does not throw.
C8_RecoveryExhausted ==
    \A p \in Procs :
        (/\ LoadDone(p) /\ CanonicalBad(p)
         /\ \/ GoodBackups(p) = {}
            \/ "readdir" \in proc[p].errs)
        => proc[p].result = [status |-> "null", val |-> NoContext]

\* C8 witness: the canonical file is garbage and the only backup is garbage
C8_Witness ==
    \E p \in Procs :
        /\ LoadDone(p) /\ CanonicalBad(p)
        /\ BackupsOf(proc[p].branch) # {}
        /\ GoodBackups(p) = {}
        /\ proc[p].result.status = "null"

\* C9 as claimed: with a valid backup, load returns the most recent valid
\* backup when the canonical file is corrupted and when it is missing.
C9_Original ==
    \A p \in Procs :
        (/\ LoadDone(p)
         /\ GoodBackups(p) # {}
         /\ "readdir" \notin proc[p].errs
         /\ ~Exists(Canon(p)) \/ CanonicalBad(p))
        => proc[p].result =
              [status |-> "ok", val |-> Parse(files[Newest(GoodBackups(p))]).val]

\* C9 amended: with a valid backup, load never throws; it returns the most
\* recent valid backup when the canonical file exists but cannot be read or
\* parsed (and the directory can be listed), and absent when the canonical
\* file is missing.
C9_Amended ==
    \A p \in Procs :
        (LoadDone(p) /\ GoodBackups(p) # {})
        => /\ proc[p].result.status # "throw"
           /\ (CanonicalBad(p) /\ "readdir" \notin proc[p].errs)
                 => /\ proc[p].result.status = "ok"
                    /\ proc[p].result.val = Parse(files[Newest(GoodBackups(p))]).val
           /\ ~Exists(Canon(p)) => proc[p].result.status = "null"

\* C9 witness: the canonical file is missing, a valid backup exists and
\* load returned absent
C9_Witness ==
    \E p \in Procs :
        /\ LoadDone(p)
        /\ ~Exists(Canon(p))
        /\ GoodBackups(p) # {}
        /\ proc[p].result.status = "null"

\* C10: a load of a key that has no canonical file returns absent and does
\* not throw, whatever else the directory holds.
C10_NotFound ==
    \A p \in Procs :
        (LoadDone(p) /\ ~Exists(Canon(p)))
        => proc[p].result = [status |-> "null", val |-> NoContext]

\* C10 witness: a load of a key never saved, and one of a deleted key, has
\* returned
C10_Witness ==
    \E p \in Procs :
        /\ LoadDone(p) /\ ~Exists(Canon(p))
        /\ dirExists
        /\ issued > 0

\* ------------------------------------------------- claims on several keys
\* a delete that ran alone and has returned
DeleteDone(p) == proc[p].op = "delete" /\ proc[p].pc = "done" /\ proc[p].alone

\* a listing that ran alone and has returned
ListDone(p) == proc[p].op = "list" /\ proc[p].pc = "done" /\ proc[p].alone

\* the branch names the listing returned
Listed(p) == { proc[p].buf[i] : i \in 1..Len(proc[p].buf) }

\* C11: after delete(key) has returned, no canonical file and no backup
\* file of the key remains, a following load of the key returns absent and
\* a following listing does not contain the key.
C11_DeleteComplete ==
    \A p \in Procs :
        /\ DeleteDone(p) =>
              /\ ~Exists(Canon(p))
              /\ BackupsOf(proc[p].branch) = {}
        /\ (/\ LoadDone(p) /\ proc[p].prev.op = "delete"
            /\ getBranchFile(proc[p].prev.branch) = Canon(p))
              => proc[p].result = [status |-> "null", val |-> NoContext]
        /\ (ListDone(p) /\ proc[p].prev.op = "delete")
              => \A b \in Listed(p) :
                    sanitizeBranchName(b) # sanitizeBranchName(proc[p].prev.branch)

\* the files the store names for branch b (its canonical file and its
\* backups, now or when p's operation began), but for the canonical file of
\* the branch p works on
FilesOfKey(p, b) ==
    ({getBranchFile(b)}
        \cup { f \in DOMAIN files \cup DOMAIN proc[p].pre :
                  \E t \in Numbers : f = getBackupFile(b, t) })
       \ {Canon(p)}

\* C12: an operation on one key leaves the canonical file and the backups
\* of every other key as they were when it began, and a load never returns
\* the document of another key.
C12_KeyIndependence ==
    \A p \in Procs :
        /\ \A b \in KeyBranches :
              (/\ proc[p].op \in {"save", "load", "delete"}
               /\ proc[p].alone
               /\ sanitizeBranchName(b) # sanitizeBranchName(proc[p].branch))
              => \A g \in FilesOfKey(p, b) :
                    /\ g \in DOMAIN files <=> g \in DOMAIN proc[p].pre
                    /\ g \in DOMAIN files => files[g] = proc[p].pre[g]
        /\ (LoadDone(p) /\ proc[p].result.status = "ok")
              => sanitizeBranchName(proc[p].result.val.branch)
                    = sanitizeBranchName(proc[p].branch)

\* ------------------------------------------------------ claims on failures
\* the failures of the temp-file write and of the rename
WriteFaults == {"writeFile", "rename", "rename:ENOENT"}

\* C13: a save whose temp-file write or rename failed has thrown, and the
\* canonical file of the key is as it was before the call: absent, or with
\* the same content.
C13_FailedSaveLeavesCanonical ==
    \A p \in Procs :
        (SaveDone(p) /\ proc[p].errs \cap WriteFaults # {})
        => /\ proc[p].result.status = "throw"
           /\ Exists(Canon(p)) <=> Canon(p) \in DOMAIN proc[p].pre
           /\ Exists(Canon(p)) => files[Canon(p)] = proc[p].pre[Canon(p)]

\* C13 witness: the rename of a save over an existing canonical file failed
C13_Witness ==
    \E p \in Procs :
        /\ SaveDone(p) /\ "rename" \in proc[p].errs
        /\ Canon(p) \in DOMAIN proc[p].pre
        /\ proc[p].result.status = "throw"
        /\ files[Canon(p)] = proc[p].pre[Canon(p)]

\* the hard failures of a delete: an unlink that fails, a directory that
\* exists and cannot be listed
DeleteFaults == {"unlinkMain", "unlink", "readdir"}

\* C14: a delete in which the removal of the canonical file or of a backup
\* failed, or the directory could not be listed, reports a failure to its
\* caller instead of returning normally.
C14_DeletePropagates ==
    \A p \in Procs :
        (/\ proc[p].op = "delete" /\ proc[p].pc = "done"
         /\ proc[p].errs \cap DeleteFaults # {})
        => proc[p].result.status = "throw"

\* the failures saveContext rethrows: those of mkdir, of the temp-file write
\* and of the rename
SaveFaults == HardFaults \cup WriteFaults

\* C15: a save fails only on a failure of mkdir, of the temp-file write or
\* of the rename: with none of them, whatever failed in the backup copy or
\* in pruning (the source vanishing under a concurrent delete included),
\* the save goes on to write the document, returns normally and, when
\* nothing else ran meanwhile, the canonical file holds the new document.
C15_BackupFailureNotFatal ==
    \A p \in Procs :
        (proc[p].op = "save" /\ proc[p].errs \cap SaveFaults = {})
        => /\ proc[p].pc # "cleanup"
           /\ proc[p].pc = "done" =>
                 /\ proc[p].result.status = "ok"
                 /\ proc[p].alone =>
                       /\ Exists(Canon(p))
                       /\ files[Canon(p)] = Stringify(proc[p].ctx)

\* C15 witness: a save has returned normally although the canonical file
\* vanished between the existence check and the copy
C15_Witness ==
    \E p \in Procs :
        /\ proc[p].op = "save" /\ proc[p].pc = "done"
        /\ "copyFile" \in proc[p].errs
        /\ faults = 0
        /\ proc[p].result.status = "ok"

\* ------------------------------------------------------ claims on the keys
\* the characters of file name f
CharsOf(f) == { f[i] : i \in 1..Len(f) }

\* C16: sanitizing is idempotent, for the store's sanitizeBranchName and for
\* GitOperations.sanitizeBranchName: the key of a key is the key itself, so
\* the files of a save are those of a save under the sanitized name.
C16_SanitizeIdempotent ==
    \A p \in Procs :
        proc[p].op = "save" =>
            LET b == proc[p].branch
                k == sanitizeBranchName(b)
                g == GitOperations_sanitizeBranchName(b)
            IN  /\ sanitizeBranchName(k) = k
                /\ GitOperations_sanitizeBranchName(g) = g
                /\ proc[p].tempFile # <<>> =>
                      startsWith(proc[p].tempFile, getBranchFile(k))

\* C16 witness: a save under a name that sanitizing changes has written its
\* canonical file
C16_Witness ==
    \E p \in Procs :
        /\ SaveDone(p) /\ proc[p].result.status = "ok"
        /\ sanitizeBranchName(proc[p].branch) # proc[p].branch
        /\ \E c \in CharsOf(proc[p].branch) : c \in ReservedChars
        /\ \E c \in CharsOf(proc[p].branch) : c \in WhiteSpace
        /\ Exists(Canon(p))

\* C17: the key of a branch is its name with reserved characters replaced,
\* whitespace runs collapsed, control and private-use characters removed,
\* cut to MaxNameLen and trimmed (what GitOperations.sanitizeBranchName
\* computes); no file name of the store holds a path separator, a
\* whitespace or a control character, and no key is longer than MaxNameLen.
C17_KeyContract ==
    /\ \A p \in Procs :
          (proc[p].op = "save" /\ proc[p].tempFile # <<>>) =>
              LET key == GitOperations_sanitizeBranchName(proc[p].branch)
              IN  /\ startsWith(proc[p].tempFile, key \o <<".", "json", ".", "tmp", ".">>)
                  /\ Len(sanitizeBranchName(proc[p].branch)) <= MaxNameLen
    /\ \A f \in DOMAIN files :
          CharsOf(f) \cap ({"/", "\\"} \cup WhiteSpace \cup ControlChars \cup PrivateUse) = {}

\* ------------------------------------------------------ claims on listing
\* the canonical files in the directory that parse
ParsableCanonical == { f \in CanonicalFiles : Exists(f) /\ Parse(files[f]).ok }

\* C18: a listing that met no I/O failure returns exactly one entry for
\* each canonical file that parses, the branch name stored in it, and
\* nothing for backups, temp files and canonical files that do not parse.
C18_ListExact ==
    \A p \in Procs :
        (ListDone(p) /\ proc[p].errs = {} /\ proc[p].unread = {})
        => /\ Listed(p) = { Parse(files[f]).val.branch : f \in ParsableCanonical }
           /\ Len(proc[p].buf) = Cardinality(ParsableCanonical)

\* the counts of document d equal the lengths of its payload sequences,
\* 0 for a sequence that is absent
CountsMatch(d) ==
    /\ d.messageCount = Count(d.messages)
    /\ d.todoCount = Count(d.todos)
    /\ d.fileCount = Count(d.files)

\* p's save has returned normally and its document is in the canonical file
Persisted(p) ==
    /\ SaveDone(p) /\ proc[p].result.status = "ok"
    /\ Exists(Canon(p))
    /\ files[Canon(p)] = Stringify(proc[p].ctx)

MaxBackupsValues == {3, KeepBackups, 7}

\* the backups of p's key that a save had to choose from: those present when
\* it began and the one it created
BackupCandidates(p) ==
    { f \in DOMAIN proc[p].pre : IsBackupOf(f, proc[p].branch) } \cup {proc[p].backupFile}

\* the m candidates with the greatest timestamps
GreatestBackups(p, m) ==
    { f \in BackupCandidates(p) :
        Cardinality({ g \in BackupCandidates(p) :
                        BackupTimestamp(g) > BackupTimestamp(f) }) < m }

\* p's save ran alone and undisturbed and created a backup
SavedWithBackup(p) ==
    /\ SaveDone(p) /\ proc[p].result.status = "ok" /\ proc[p].errs = {}
    /\ Canon(p) \in DOMAIN proc[p].pre
    /\ proc[p].backupFile # <<>>

\* after p's save the backups of its key are the m newest candidates
RetainsNewest(p, m) ==
    /\ Cardinality(BackupsOf(proc[p].branch)) <= m
    /\ BackupsOf(proc[p].branch) = GreatestBackups(p, m)

\* C20: for every configured storage.maxBackups value m, after a save that
\* created a backup at most m backups of the key remain, the ones with the
\* greatest timestamps.
C20_ConfiguredRetention ==
    \A m \in MaxBackupsValues : \A p \in Procs :
        SavedWithBackup(p) => RetainsNewest(p, m)

\* ------------------------------------------------------ claims on the monitor
\* a check that found the branch changed has returned
CheckDone(p) ==
    /\ monitor.constructed
    /\ monitor.calls[p].op = "check" /\ monitor.calls[p].pc = "done"
    /\ monitor.calls[p].detected

\* the callbacks registered when p's check detected the change that
\* offChange did not remove before the check returned
StillRegistered(p) ==
    SelectSeq(monitor.calls[p].registered, LAMBDA cb : cb \notin monitor.calls[p].removed)

\* those of them that p's check invoked, in the order of the invocations
InvokedOf(p) ==
    LET c == monitor.calls[p]
        all == [k \in 1..Len(c.invoked) |-> c.invoked[k].cb]
    IN  SelectSeq(all, LAMBDA cb : cb \notin c.removed
                                  /\ \E k \in 1..Len(c.registered) : c.registered[k] = cb)

\* C26: when a check detects a branch other than the recorded one, every
\* registered callback that offChange did not remove is invoked exactly
\* once, in registration order, with (previous branch, new branch), also
\* after a callback that threw.
C26_CallbacksInvoked ==
    \A p \in Procs :
        CheckDone(p) =>
            /\ InvokedOf(p) = StillRegistered(p)
            /\ \A k \in 1..Len(monitor.calls[p].invoked) :
                  /\ monitor.calls[p].invoked[k].oldBranch = monitor.calls[p].oldBranch
                  /\ monitor.calls[p].invoked[k].newBranch = monitor.calls[p].newBranch
                  /\ monitor.calls[p].newBranch # monitor.calls[p].oldBranch

\* p's start() has returned
StartDone(p) ==
    /\ monitor.constructed
    /\ monitor.calls[p].op = "start" /\ monitor.calls[p].pc = "done"

AutoSaves == { i \in DOMAIN plugin.saves : plugin.saves[i].kind # "branch" }

Distance(a, b) == IF a < b THEN b - a ELSE a - b

\* C21: two saves performed by autoSave, from whatever hooks and however
\* the hook invocations overlap, are never closer together than
\* autoSave.throttleMs
C21_ThrottledSaves ==
    \A i, j \in AutoSaves :
        i # j => Distance(plugin.saves[i].at, plugin.saves[j].at) >= ThrottleMs

\* a save is running or has run in slot p
SaveCalled(p) == proc[p].op = "save"

\* C22: with autoSave.enabled false the plugin performs no automatic save:
\* neither a hook nor a detected branch change writes to the store
C22_DisabledNoSave ==
    (plugin.loaded /\ ~plugin.enabled) =>
        /\ plugin.saves = <<>>
        /\ \A p \in Procs : ~SaveCalled(p)

\* the saves performed by hooks or callbacks of the given kind
SavesOf(kind) == { i \in DOMAIN plugin.saves : plugin.saves[i].kind = kind }

\* no save by a hook or callback of the given kind, finished or running
NoSaveBy(kind) ==
    /\ SavesOf(kind) = {}
    /\ \A p \in Procs : plugin.hooks[p].kind = kind => ~(plugin.hooks[p].pc \in {"save", "bc-save"})

\* C23: with autoSave.onToolExecute false the tool.execute.before hook
\* performs no save, and with autoSave.onBranchChange false a detected
\* branch change performs no save
C23_FlagsRespected ==
    /\ (plugin.loaded /\ ~plugin.onToolExecute) => NoSaveBy("tool")
    /\ (plugin.loaded /\ ~plugin.onBranchChange) => NoSaveBy("branch")

\* the unload hook ran while auto-save was enabled and HEAD was on a branch
UnloadedOnBranch ==
    plugin.loaded /\ plugin.unloaded /\ plugin.enabled /\ plugin.unloadHead # NoBranch

\* the unload hook has saved the context for the branch HEAD was on
FinalSaveDone ==
    \E i \in SavesOf("unload") : plugin.saves[i].branch = plugin.unloadHead

\* HEAD has left the branch it was on at unload
HeadMoved == getCurrentBranch # plugin.unloadHead

\* C24: when the unload hook runs while auto-save is enabled and a current
\* branch exists, a save of the current context for that branch is
\* eventually performed, whatever saves happened before (unless HEAD
\* leaves the branch before the save)
C24_FinalSave == UnloadedOnBranch ~> (FinalSaveDone \/ HeadMoved)

\* ---------------------------------------------------- claims on the save tool
\* C25 as stated: a failed save, nothing to save and saved but no backup
\* made are each distinguished from a plain success and from each other
C25_Original ==
    tool.constructed =>
        \A a, b \in tool.log : a.case # b.case => a.result # b.result

\* the case of a request as its caller can tell it
Visible(case) == IF case = "saved-no-backup" THEN "saved" ELSE case

\* C25: a failed save, nothing to save and a save that succeeded, with or
\* without a backup, are reported by three different results
C25_OutcomesDistinct ==
    tool.constructed =>
        /\ \A a, b \in tool.log :
              Visible(a.case) # Visible(b.case) => a.result.text # b.result.text
        /\ \A a \in tool.log :
              a.result.text = (CASE Visible(a.case) = "failed" -> "failed"
                                 [] Visible(a.case) = "nothing" -> "not-on-branch"
                                 [] Visible(a.case) = "saved" -> "saved")

\* a save that failed to make its backup has returned, and so have a failed
\* save and a request without a branch
C25_Witness ==
    /\ tool.constructed
    /\ {a.case : a \in tool.log} = {"failed", "nothing", "saved-no-backup"}
    /\ faults > 0

\* ------------------------------------------------- claims on the configuration
\* the paths to the values of a plain tree, through objects only
RECURSIVE PathsOf(_)
PathsOf(tree) ==
    {<<>>} \cup
    (IF tree.t = "obj"
     THEN UNION { { <<k>> \o p : p \in PathsOf(tree.v[k]) } : k \in DOMAIN tree.v }
     ELSE {})

\* two JSON values are the same value
Same(a, b) == a.t = b.t /\ a.v = b.v

IsLeaf(n) == n.t \in {"str", "null", "arr"}

\* the prefixes of a path that are shorter than it
ProperPrefixes(p) == { SubSeq(p, 1, n) : n \in 0..(Len(p) - 1) }

\* the user file is an object down to some prefix of the path and lacks
\* the next key there
AbsentIn(user, p) ==
    \E q \in ProperPrefixes(p) :
        /\ HasAt(user, q)
        /\ GetAt(user, q).t = "obj"
        /\ ~(p[Len(q) + 1] \in KeysOf(GetAt(user, q)))

\* the result holds the value that the tree holds at the path
Takes(result, tree, p) == HasAt(result, p) /\ Same(GetAt(result, p), GetAt(tree, p))

\* result is the merge of the user object over the defaults
MergedOver(result, defaults, user) ==
    /\ \A p \in PathsOf(user) :
          IsLeaf(GetAt(user, p)) => Takes(result, user, p)
    /\ \A p \in PathsOf(user) :
          (/\ GetAt(user, p).t = "obj"
           /\ ~(HasAt(defaults, p) /\ GetAt(defaults, p).t = "obj"))
              => Takes(result, user, p)
    /\ \A p \in PathsOf(defaults) :
          AbsentIn(user, p) => Takes(result, defaults, p)
    /\ PathsOf(result) \subseteq PathsOf(user) \cup PathsOf(defaults)

LoadReturned == config.constructed /\ config.last.kind = "load"

\* C28: load merges the user file over the defaults key by key at every
\* depth: the user's value where the file has the key, the default where
\* it has not, arrays replaced as a whole; without a file, or with one
\* that cannot be read or parsed, the result equals the defaults
C28_LoadMerges ==
    LoadReturned =>
        IF config.file.state = "json"
        THEN MergedOver(config.last.value, config.last.defaults, config.file.value)
        ELSE Same(config.last.value, config.last.defaults)

\* load has merged a file that replaces an array of the defaults inside a
\* section and leaves the other key of the section to the defaults
C28_Witness ==
    /\ LoadReturned
    /\ config.file.state = "json"
    /\ HasAt(config.file.value, <<"context", "defaultInclude">>)
    /\ GetAt(config.file.value, <<"context", "defaultInclude">>).t = "arr"
    /\ ~HasAt(config.file.value, <<"context", "maxMessages">>)
    /\ Same(GetAt(config.last.value, <<"context", "maxMessages">>), Str("50"))

\* C29: whatever the callers assign to the objects they were handed, a
\* later getDefault() and a later load() without a user file return the
\* original default values
C29_DefaultsIntact ==
    (/\ config.constructed
     /\ config.last.kind \in {"getDefault", "load"}
     /\ (config.last.kind = "load" => config.file.state = "missing"))
        => Same(config.last.value, DEFAULT_CONFIG)

\* ---------------------------------------------------- claims on the collector
Collected == collector.constructed /\ collector.calls > 0

\* C30: for every configured maxMessages >= 0 and maxTodos >= 0 and every
\* session, a collected document holds at most maxMessages messages and
\* at most maxTodos todos, and its counts are within the same limits
C30_WithinLimits ==
    Collected =>
        /\ Count(collector.context.messages) <= collector.maxMessages
        /\ Count(collector.context.todos) <= collector.maxTodos
        /\ collector.context.messageCount <= collector.maxMessages
        /\ collector.context.todoCount <= collector.maxTodos

\* ------------------------------------------- claims on temp files and backups
\* the save of caller p has returned, with a value or with an error
SaveReturned(p) == proc[p].op = "save" /\ proc[p].pc = "done"

\* C31: once a save has returned, with success or with a propagated error,
\* the temp file it created is not in the storage directory, provided the
\* deletion in the catch block did not itself fail
C31_TempFileGone ==
    \A p \in Procs :
        (SaveReturned(p) /\ "cleanup" \notin proc[p].errs)
            => ~Exists(proc[p].tempFile)

\* a save whose rename failed after the temp file was written has thrown
C31_Witness ==
    \E p \in Procs :
        /\ SaveReturned(p)
        /\ proc[p].result.status = "throw"
        /\ "rename" \in proc[p].errs
        /\ ~Exists(proc[p].tempFile)

\* caller p starts the copy of createBackup in this step
BackupCreated(p) == proc[p].pc = "copy1" /\ proc'[p].pc = "copy2"

\* C32: the name a save gives to the backup it creates is the name of no
\* backup that already exists, so creating a backup never overwrites or
\* replaces an earlier one, whatever the time between two saves
C32_DistinctBackupNames ==
    [][\A p \in Procs : BackupCreated(p) => ~Exists(proc'[p].backupFile)]_vars

\* the backups of b the earlier session left and those the saves created
CreatedBackups(b) ==
    { f \in DOMAIN PriorDir(b) : IsBackupOf(f, b) }
        \cup { proc[p].backupFile : p \in { q \in Procs : proc[q].branch = b } }

\* the KeepBackups created backups of b with the greatest timestamps
GreatestCreated(b) ==
    { f \in CreatedBackups(b) :
        Cardinality({ g \in CreatedBackups(b) :
                        BackupTimestamp(g) > BackupTimestamp(f) }) < KeepBackups }

\* every caller saved b, created a backup, pruned and returned, no call failing
AllSavedConcurrently(b) ==
    \A p \in Procs :
        /\ SaveReturned(p) /\ proc[p].branch = b
        /\ proc[p].errs = {} /\ proc[p].backupFile # <<>>

\* C36: once several concurrent saves of one key, each creating a backup and
\* pruning, have all returned, at most KeepBackups backups of the key exist
\* and they are the ones with the greatest timestamps among those created
C36_ConcurrentPruning ==
    \A b \in Branches :
        AllSavedConcurrently(b)
            => /\ Cardinality(BackupsOf(b)) <= KeepBackups
               /\ BackupsOf(b) = GreatestCreated(b)

\* two overlapping saves created backups in different milliseconds and each
\* found two backups too many
C36_Witness ==
    \E b \in Branches :
        /\ AllSavedConcurrently(b)
        /\ \A p \in Procs : ~proc[p].alone
        /\ Cardinality(CreatedBackups(b)) = KeepBackups + 2
        /\ Cardinality(BackupsOf(b)) = KeepBackups

\* some save is in the middle of copying onto backup f
CopyInProgress(f) ==
    \E p \in Procs : proc[p].pc = "copy2" /\ proc[p].backupFile = f

\* the documents handed to the store for b, by the earlier session or since
SavedContents(b) ==
    { Stringify(MakeContext(b, n)) : n \in 1..(PriorSaves + issued) }

\* what the canonical file of b can have held: the documents saved and, once
\* it was overwritten from outside, the garbage
HeldContents(b) ==
    SavedContents(b) \cup (IF corrupts > 0 THEN {Garbage} ELSE {})

\* the backups whose copy has completed, no call having failed or died
CompleteBackups(b) ==
    { f \in BackupsOf(b) : ~CopyInProgress(f) /\ faults = 0 }

\* the copy of createBackup that caller p runs completes in this step
CopyCompleted(p) == proc[p].pc = "copy2" /\ proc'[p].pc = "readdir"

\* C37 as stated: every backup of a key holds a complete, parsable document
\* that was the content of the key's canonical file when the backup was
\* made, also after the canonical file was corrupted and load recovered
\* (read here for backups whose copy has completed)
C37_Original ==
    \A b \in Branches : \A f \in CompleteBackups(b) :
        /\ Parse(files[f]).ok
        /\ files[f] \in SavedContents(b)

\* C37 amended: a backup whose copy has completed holds exactly what the
\* canonical file holds at that moment, and every such backup holds a
\* complete, parsable document that was saved or the garbage a canonical
\* file was corrupted to
C37_Amended ==
    /\ [](\A b \in Branches : \A f \in CompleteBackups(b) :
            /\ files[f] \in HeldContents(b)
            /\ Parse(files[f]).ok \/ files[f] = Garbage)
    /\ [][\A p \in Procs :
            CopyCompleted(p) =>
                files'[proc[p].backupFile] = files[Canon(p)]]_vars

\* a save after a corruption has archived the garbage and returned
C37_Witness ==
    \E b \in Branches : \E f \in CompleteBackups(b) :
        /\ files[f] = Garbage
        /\ \E p \in Procs : SaveReturned(p) /\ proc[p].backupFile = f
                               /\ proc[p].result.status = "ok"

\* the save of p ran alone and threw because its temp-file write or its
\* rename failed
SaveFailed(p) ==
    /\ SaveReturned(p) /\ proc[p].alone
    /\ proc[p].result.status = "throw"
    /\ proc[p].errs \cap {"writeFile", "rename"} # {}

\* the backups of p's key when p's operation began
BackupsBefore(p) == { f \in DOMAIN proc[p].pre : IsBackupOf(f, proc[p].branch) }

\* backup f is older than KeepBackups backups that exist
Superseded(f, branch) ==
    Cardinality({ g \in BackupsOf(branch) :
                    BackupTimestamp(g) > BackupTimestamp(f) }) >= KeepBackups

\* C38 as stated: a save that fails at its temp-file write or at its rename
\* leaves the set and the contents of the key's backups as they were (read
\* for saves made in a millisecond of which the key has no backup yet)
C38_Original ==
    \A p \in Procs :
        (SaveFailed(p) /\ proc[p].backupFile \notin BackupsBefore(p))
            => /\ BackupsOf(proc[p].branch) = BackupsBefore(p)
               /\ \A f \in BackupsBefore(p) : files[f] = proc[p].pre[f]

\* C38 amended: after such a save the canonical file is as before; every
\* backup is one that existed before, with its content unchanged, or the
\* copy of the canonical file this save made; and a backup that existed
\* before is gone only if KeepBackups newer ones exist or this save copied
\* onto its name
C38_Amended ==
    \A p \in Procs :
        SaveFailed(p)
            => /\ Exists(Canon(p)) <=> Canon(p) \in DOMAIN proc[p].pre
               /\ Exists(Canon(p)) => files[Canon(p)] = proc[p].pre[Canon(p)]
               /\ \A f \in BackupsOf(proc[p].branch) :
                     \/ f \in BackupsBefore(p) /\ files[f] = proc[p].pre[f]
                     \/ /\ f = proc[p].backupFile
                        /\ files[f] = proc[p].pre[Canon(p)]
               /\ \A f \in BackupsBefore(p) \ BackupsOf(proc[p].branch) :
                     Superseded(f, proc[p].branch) \/ f = proc[p].backupFile

\* a save that failed has added a backup and evicted the oldest one
C38_Witness ==
    \E p \in Procs :
        /\ SaveFailed(p)
        /\ proc[p].backupFile \in BackupsOf(proc[p].branch) \ BackupsBefore(p)
        /\ BackupsBefore(p) \ BackupsOf(proc[p].branch) # {}

\* ------------------------------------------------------ claims on reading
\* caller p begins or advances a load or a getMetadata in this step
ReadsInStep(p) ==
    /\ proc'[p].op \in {"load", "getMetadata"}
    /\ proc'[p] # proc[p]

\* C39: no step of load(key) or of getMetadata(key) creates, modifies or
\* deletes a file or the storage directory, also when load recovers from a
\* backup: canonical file and backups are after the call as before it
C39_ReadOnly ==
    [][\A p \in Procs : ReadsInStep(p) => UNCHANGED <<files, dirExists>>]_vars

\* a load has recovered a document from a backup and the directory is as
\* it was when the load began
C39_Witness ==
    \E p \in Procs :
        /\ LoadDone(p) /\ CanonicalBad(p)
        /\ proc[p].result.status = "ok"
        /\ files = proc[p].pre

\* --------------------------------------------- claims on the saved branches
\* the branch-change callback running in slot p has saved a document
BranchChangeSaved(p) ==
    /\ plugin.hooks[p].kind = "branch"
    /\ SaveReturned(p) /\ proc[p].result.status = "ok"

\* C33: every document the plugin or the save tool writes to the canonical
\* file of a key has a branch field that sanitizes to that key, whatever
\* the branch switches and saves; stated here for the context auto-saved
\* for the old branch when a branch change is detected
C33_BranchFieldMatchesKey ==
    \A p \in Procs :
        BranchChangeSaved(p) => getBranchFile(proc[p].ctx.branch) = Canon(p)

\* -------------------------------------------- claims on overlapping monitor calls
\* no start() is in flight
NoStartPending ==
    \A p \in Procs : monitor.calls[p].op = "start" => monitor.calls[p].pc = "done"

\* C35: whatever the interleaving of start(), stop() and watcher errors,
\* two overlapping start() calls included, at most one polling timer and
\* at most one file watcher are live, and none is live once stop() has
\* returned and no start() is pending
C35_AtMostOneLive ==
    monitor.constructed =>
        /\ monitor.openWatchers <= 1
        /\ monitor.openTimers <= 1
        /\ (monitor.last = "stop" /\ NoStartPending)
              => monitor.openWatchers = 0 /\ monitor.openTimers = 0

\* two rounds of callbacks began by checks that had both read HEAD before
\* either compared
Overlapping(r1, r2) == r1.readAt <= r2.at /\ r2.readAt <= r1.at

\* C34: whatever the interleaving of the checks the watcher and the timer
\* trigger, no callback is invoked with oldBranch equal to newBranch, and
\* two overlapping checks that observed the same new branch begin one round
\* of callbacks, not two
C34_OneRoundPerChange ==
    /\ \A r \in monitor.rounds : r.oldBranch # r.newBranch
    /\ \A r1, r2 \in monitor.rounds :
          (r1 # r2 /\ Overlapping(r1, r2)) => r1.newBranch # r2.newBranch

====
